---- MODULE Spec2Model ----
(***************************************************************************)
(* Model of the ingestion pipeline and the document store of the legal     *)
(* document analysis backend (backend/app).                                *)
(*                                                                         *)
(*   Spec       the service: ingest endpoint, background ingestion task,   *)
(*              status query and unary ask with its lazy embedding         *)
(*              backfill, all acting on one document id                    *)
(*   SpecBatch  GeminiClient.batch_summarize_clauses called on every       *)
(*              bounded clause list                                        *)
(*   SpecStore  FirestoreClient.update_document_status called by           *)
(*              concurrent clients of the store                            *)
(*   SpecRerun  process_document_complete run twice with one doc_id        *)
(***************************************************************************)
EXTENDS Integers, Sequences, FiniteSets, TLC

(***************************************************************************)
(* Bounds of the model.  The settings of core/config.py and the lengths of *)
(* the prompt texts are scaled down so that small clause lists exercise    *)
(* batching, the over-limit split and chunked writes.                      *)
(***************************************************************************)
\* longest clause list a document yields
MaxClauses == 3
\* most PII matches found in one document
MaxPII == 1
\* settings.MAX_CLAUSES_PER_BATCH (config.py:76, default 10), scaled
MAX_CLAUSES_PER_BATCH == 2
\* settings.MAX_PROMPT_TOKENS (config.py:82, default 30000), scaled
MAX_PROMPT_TOKENS == 10
\* depth at which the interpreter raises RecursionError (1000), scaled
RecursionLimit == 3
\* len(system_prompt) of _build_system_prompt, scaled
SystemPromptLen == 4
\* len of the fixed part of _build_batch_prompt, scaled
BatchPromptBaseLen == 8
\* len of the "===" / {"id": .., "text": ..} wrapping of one clause, scaled
ClauseWrapLen == 4
\* clause.text[:2000] of _build_batch_prompt, scaled
MaxClauseChars == 32
\* MAX_WRITES_PER_BATCH of update_clause_embeddings (50), scaled
MAX_WRITES_PER_BATCH == 2

\* clause text lengths (characters) the inputs are drawn from
ClauseLens == {4, 12, 40}

Min(a, b) == IF a < b THEN a ELSE b
Max(a, b) == IF a > b THEN a ELSE b

Range(s) == {s[i] : i \in 1..Len(s)}

(***************************************************************************)
(* Clause candidates.  cid is the position of the candidate in the         *)
(* segmenter's output, len the length of its text, tok the number of the   *)
(* redaction token its text carries (0: none).                             *)
(***************************************************************************)
Candidate(i, l, t) == [cid |-> i, len |-> l, tok |-> t]

\* the candidate lists of n clauses with the given lengths; the first
\* clause carries the redaction token t
CandidatesOf(lens, t) ==
    [i \in 1..Len(lens) |-> Candidate(i, lens[i], IF i = 1 THEN t ELSE 0)]

LenSeqs(n) == [1..n -> ClauseLens]

AllLens == UNION {LenSeqs(n) : n \in 0..MaxClauses}

\* clause text length of the documents the service ingests (two such clauses
\* share a batch, whose prompt is over the limit and is split)
DocClauseLen == 12

DocLens == {[i \in 1..n |-> DocClauseLen] : n \in 0..MaxClauses}

(***************************************************************************)
(* gemini_client.py: token estimate, batching, one batch                   *)
(***************************************************************************)
estimate_tokens(len) == Max(1, len \div 4)

RECURSIVE create_batches_from(_, _, _, _, _, _)
create_batches_from(clauses, i, batches, current_batch, current_tokens, max_batch_size) ==
    IF i > Len(clauses)
    THEN IF current_batch # <<>> THEN Append(batches, current_batch) ELSE batches
    ELSE LET clause_tokens == estimate_tokens(clauses[i].len)
             full == \/ Len(current_batch) >= max_batch_size
                     \/ 10 * (current_tokens + clause_tokens) > 7 * MAX_PROMPT_TOKENS
             flush == full /\ current_batch # <<>>
         IN  create_batches_from(
                 clauses, i + 1,
                 IF flush THEN Append(batches, current_batch) ELSE batches,
                 IF flush THEN <<clauses[i]>> ELSE Append(current_batch, clauses[i]),
                 IF flush THEN clause_tokens ELSE current_tokens + clause_tokens,
                 max_batch_size)

\* batches of max_batch_size clauses, whatever their token estimate
create_batches_by_count(clauses, max_batch_size) ==
    [b \in 1..((Len(clauses) + max_batch_size - 1) \div max_batch_size) |->
        SubSeq(clauses, (b - 1) * max_batch_size + 1,
               Min(b * max_batch_size, Len(clauses)))]

create_batches(clauses, max_batch_size) ==
    create_batches_from(clauses, 1, <<>>, <<>>, 0, max_batch_size)

RECURSIVE SumLens(_)
SumLens(clauses) ==
    IF clauses = <<>> THEN 0
    ELSE ClauseWrapLen + Min(Head(clauses).len, MaxClauseChars) + SumLens(Tail(clauses))

build_batch_prompt_len(clauses) == BatchPromptBaseLen + SumLens(clauses)

total_tokens(clauses) ==
    estimate_tokens(SystemPromptLen) + estimate_tokens(build_batch_prompt_len(clauses))

\* What one _generate_content call and the parse of its text come to:
\*   error       the LLM call raises (GeminiError)
\*   unparsable  no JSON array in the text, or json.loads fails
\*   baditem     a JSON array whose items are not objects (result.get raises)
\*   short       a JSON array with one item less than there are clauses
\*   full        one item per clause
\*   long        one item more than there are clauses
Outcomes == {"error", "unparsable", "baditem", "short", "full", "long"}

\* a call that raised, and a call that returned results
Raised == [raised |-> TRUE, results |-> <<>>]
Returned(results) == [raised |-> FALSE, results |-> results]

validate_result(clause, index) ==
    [src |-> clause.cid, clause_id |-> index, processing_method |-> "gemini",
     confidence |-> 8, needs_review |-> FALSE]

create_fallback_result(clause, index) ==
    [src |-> clause.cid, clause_id |-> index, processing_method |-> "fallback",
     confidence |-> 3, needs_review |-> TRUE]

create_fallback_results(clauses) ==
    [i \in 1..Len(clauses) |-> create_fallback_result(clauses[i], i - 1)]

ItemCount(o, n) ==
    IF o = "short" THEN Max(n - 1, 0) ELSE IF o = "long" THEN n + 1 ELSE n

\* _parse_batch_response without the i < len(original_clauses) test and
\* without the fill-in loop
parse_batch_response_unpadded(o, original_clauses) ==
    IF o = "unparsable" THEN create_fallback_results(original_clauses)
    ELSE [i \in 1..ItemCount(o, Len(original_clauses)) |->
             IF i <= Len(original_clauses)
             THEN validate_result(original_clauses[i], i - 1)
             ELSE validate_result(original_clauses[Len(original_clauses)], i - 1)]

\* _parse_batch_response: items beyond the batch are dropped, missing items
\* are filled with fallbacks; an unparsable text gives fallbacks for all
parse_batch_response(o, original_clauses) ==
    IF o = "unparsable" THEN create_fallback_results(original_clauses)
    ELSE LET parsed == Min(ItemCount(o, Len(original_clauses)), Len(original_clauses))
         IN  [i \in 1..Len(original_clauses) |->
                 IF i <= parsed
                 THEN validate_result(original_clauses[i], i - 1)
                 ELSE create_fallback_result(original_clauses[i], i - 1)]

\* _process_batch; outs[i] is the outcome of the LLM call whose prompt
\* starts with clause i of this batch.  The call on an empty half (mid = 0)
\* returns no result whatever the LLM answers: the other half raises.
RECURSIVE process_batch(_, _, _)
process_batch(clauses, outs, depth) ==
    IF depth > RecursionLimit THEN Raised
    ELSE IF total_tokens(clauses) > MAX_PROMPT_TOKENS
    THEN LET mid == Len(clauses) \div 2
             batch1 == process_batch(SubSeq(clauses, 1, mid), SubSeq(outs, 1, mid), depth + 1)
             batch2 == process_batch(SubSeq(clauses, mid + 1, Len(clauses)),
                                     SubSeq(outs, mid + 1, Len(outs)), depth + 1)
         IN  IF batch1.raised THEN Raised
             ELSE IF batch2.raised THEN Raised
             ELSE Returned(batch1.results \o batch2.results)
    ELSE IF clauses = <<>> THEN Returned(<<>>)
    ELSE IF outs[1] \in {"error", "baditem"} THEN Raised
    ELSE Returned(parse_batch_response(outs[1], clauses))

\* a wrapper that logs the exception of the batch and returns no result
process_batch_with_retry_dropping(batch, outs) ==
    LET r == process_batch(batch, outs, 0)
    IN  IF r.raised THEN <<>> ELSE r.results

\* _process_batch_with_retry: any exception of the batch gives fallbacks
process_batch_with_retry(batch, outs) ==
    LET r == process_batch(batch, outs, 0)
    IN  IF r.raised THEN create_fallback_results(batch) ELSE r.results

(***************************************************************************)
(* State                                                                   *)
(***************************************************************************)
VARIABLES
    store_doc,              \* documents/{doc_id}: the document record
    store_clauses,          \* documents/{doc_id}/clauses: clause_id -> record
    pc,                     \* position of the ingestion task
    doc_input,              \* the uploaded document: clause lengths, PII matches
    stages_completed,       \* processing_result["stages_completed"]
    result_status,          \* processing_result["status"]
    raised_in,              \* stage (numbered as in the stage sequence) that raised
    masked_text,            \* redaction token carried by the masked text (0: none)
    clause_candidates,      \* output of the segmenter
    summarization_results,  \* output of batch_summarize_clauses
    token_counter,          \* PrivacyService._token_counter
    bs_pc,                  \* position of batch_summarize_clauses
    batches,                \* its batches
    pending,                \* batch tasks that have not completed
    all_results,            \* its all_results list
    ingest_response,        \* HTTP status of the ingest request
    status_reply,           \* status returned by the last status query
    qa_pc,                  \* position of the unary ask
    qa_clauses,             \* its local clause list
    qa_reply,               \* HTTP status of the last ask, "none" while one is handled
    cache,                  \* clause cache entry clauses:<doc_id>
    callers,                \* clients inside update_document_status (SpecStore)
    run,                    \* 0, or the number of the pipeline run (SpecRerun)
    first_clauses,          \* clauses persisted by the first run (SpecRerun)
    answers,                \* collaborator answers of the first run (SpecRerun)
    risk,                   \* a call of analyze_clause_risk (SpecRisk)
    request,                \* a question request and its collaborators (SpecQA)
    unary,                  \* ask_question on the request (SpecQA)
    stream,                 \* ask_question_stream on the request (SpecQA)
    session_log,            \* messages of the chat session (SpecSession)
    asks,                   \* two requests on the chat session (SpecSession)
    events,                 \* question_asked events handed to the publisher (SpecEvents)
    privacy,                \* a call of detect_and_mask_pii and of unmask_text (SpecPrivacy)
    grounded,               \* retrieval, LLM response and answer of one question (SpecGrounded)
    chunked,                \* the chunked write of update_clause_embeddings (SpecChunks)
    extraction,             \* one call of process_document (SpecExtract)
    split,                  \* one call of _process_batch and its recursive calls (SpecSplit)
    analysis,               \* the risk and readability tasks of stages 6 and 7 (SpecGather)
    packing,                \* one call of _create_batches (SpecPack)
    overlaps,               \* the matches of the regex detector and what overlap removal keeps (SpecOverlap)
    merging,                \* one call of _validate_and_merge_clauses (SpecMerge)
    resolving,              \* the response language of one question, unary and streaming (SpecLanguage)
    persisting,             \* one answered question and the persistence that follows it (SpecPersist)
    processor               \* the DocumentProcessor instance over several extractions (SpecClient)

storeVars == <<store_doc, store_clauses>>
taskVars == <<pc, doc_input, stages_completed, result_status, raised_in,
              masked_text, clause_candidates, summarization_results, token_counter>>
batchVars == <<bs_pc, batches, pending, all_results>>
apiVars == <<ingest_response, status_reply>>
qaVars == <<qa_pc, qa_clauses, qa_reply, cache>>
rerunVars == <<run, first_clauses, answers>>
askVars == <<request, unary, stream>>
sessVars == <<session_log, asks>>

\* the variables of the component harnesses
unitVars == <<events, privacy, grounded, chunked, extraction, split, analysis, packing, overlaps, merging, resolving, persisting, processor>>

\* what an action on events leaves alone
events_only ==
    UNCHANGED <<storeVars, taskVars, batchVars, apiVars, qaVars, callers, rerunVars,
                risk, askVars, sessVars, privacy, grounded, chunked, extraction, split, analysis, packing, overlaps, merging, resolving, persisting, processor>>

\* what an action on privacy leaves alone
privacy_only ==
    UNCHANGED <<storeVars, taskVars, batchVars, apiVars, qaVars, callers, rerunVars,
                risk, askVars, sessVars, events, grounded, chunked, extraction, split, analysis, packing, overlaps, merging, resolving, persisting, processor>>

\* what an action on grounded leaves alone
grounded_only ==
    UNCHANGED <<storeVars, taskVars, batchVars, apiVars, qaVars, callers, rerunVars,
                risk, askVars, sessVars, events, privacy, chunked, extraction, split, analysis, packing, overlaps, merging, resolving, persisting, processor>>

\* what an action on chunked leaves alone
chunked_only ==
    UNCHANGED <<storeVars, taskVars, batchVars, apiVars, qaVars, callers, rerunVars,
                risk, askVars, sessVars, events, privacy, grounded, extraction, split, analysis, packing, overlaps, merging, resolving, persisting, processor>>

\* what an action on extraction leaves alone
extraction_only ==
    UNCHANGED <<storeVars, taskVars, batchVars, apiVars, qaVars, callers, rerunVars,
                risk, askVars, sessVars, events, privacy, grounded, chunked, split, analysis, packing, overlaps, merging, resolving, persisting, processor>>

\* what an action on split leaves alone
split_only ==
    UNCHANGED <<storeVars, taskVars, batchVars, apiVars, qaVars, callers, rerunVars,
                risk, askVars, sessVars, events, privacy, grounded, chunked, extraction, analysis, packing, overlaps, merging, resolving, persisting, processor>>

\* what an action on analysis leaves alone
analysis_only ==
    UNCHANGED <<storeVars, taskVars, batchVars, apiVars, qaVars, callers, rerunVars,
                risk, askVars, sessVars, events, privacy, grounded, chunked, extraction, split, packing, overlaps, merging, resolving, persisting, processor>>

\* what an action on packing leaves alone
packing_only ==
    UNCHANGED <<storeVars, taskVars, batchVars, apiVars, qaVars, callers, rerunVars,
                risk, askVars, sessVars, events, privacy, grounded, chunked, extraction, split, analysis, overlaps, merging, resolving, persisting, processor>>

\* what an action on overlaps leaves alone
overlaps_only ==
    UNCHANGED <<storeVars, taskVars, batchVars, apiVars, qaVars, callers, rerunVars,
                risk, askVars, sessVars, events, privacy, grounded, chunked, extraction, split, analysis, packing, merging, resolving, persisting, processor>>

\* what an action on merging leaves alone
merging_only ==
    UNCHANGED <<storeVars, taskVars, batchVars, apiVars, qaVars, callers, rerunVars,
                risk, askVars, sessVars, events, privacy, grounded, chunked, extraction, split, analysis, packing, overlaps, resolving, persisting, processor>>

\* what an action on resolving leaves alone
resolving_only ==
    UNCHANGED <<storeVars, taskVars, batchVars, apiVars, qaVars, callers, rerunVars,
                risk, askVars, sessVars, events, privacy, grounded, chunked, extraction, split, analysis, packing, overlaps, merging, persisting, processor>>

\* what an action on persisting leaves alone
persisting_only ==
    UNCHANGED <<storeVars, taskVars, batchVars, apiVars, qaVars, callers, rerunVars,
                risk, askVars, sessVars, events, privacy, grounded, chunked, extraction, split, analysis, packing, overlaps, merging, resolving, processor>>

\* what an action on processor leaves alone
processor_only ==
    UNCHANGED <<storeVars, taskVars, batchVars, apiVars, qaVars, callers, rerunVars,
                risk, askVars, sessVars, events, privacy, grounded, chunked, extraction, split, analysis, packing, overlaps, merging, resolving, persisting>>

extVars == <<risk, askVars, sessVars, unitVars>>
vars == <<storeVars, taskVars, batchVars, apiVars, qaVars, callers, rerunVars, extVars>>

(***************************************************************************)
(* firestore_client.py: the document record                                *)
(***************************************************************************)
PROCESSING == "processing"
COMPLETED == "completed"
FAILED == "failed"

NoDoc == [exists |-> FALSE, status |-> "none", failed_at_stage |-> -1,
          error |-> FALSE, clause_count |-> 0]

\* create_document with the status the enum lists first
create_document_data_uploaded ==
    [exists |-> TRUE, status |-> "uploaded", failed_at_stage |-> -1,
     error |-> FALSE, clause_count |-> 0]

\* the record create_document sets
create_document_data ==
    [exists |-> TRUE, status |-> PROCESSING, failed_at_stage |-> -1,
     error |-> FALSE, clause_count |-> 0]

\* DocumentReference.update of the store: merges the fields into an existing
\* record and fails with NotFound when there is none
DocRefUpdate(doc, data) ==
    IF ~doc.exists THEN [found |-> FALSE, doc |-> doc]
    ELSE [found |-> TRUE,
          doc |-> [f \in DOMAIN doc |-> IF f \in DOMAIN data THEN data[f] ELSE doc[f]]]

update_data(status, metadata) == metadata @@ [status |-> status]

\* the existence check of update_document_status
doc_exists(doc) == doc.exists

\* the update of update_document_status with NotFound swallowed
write_status_swallow(doc, status, metadata) ==
    LET w == DocRefUpdate(doc, update_data(status, metadata))
    IN  [ok |-> TRUE, doc |-> w.doc]

\* the update of update_document_status: NotFound becomes FirestoreError
write_status(doc, status, metadata) ==
    LET w == DocRefUpdate(doc, update_data(status, metadata))
    IN  [ok |-> w.found, doc |-> w.doc]

\* update_document_status when no other client of the store acts between its
\* existence check and its unconditional update of status and metadata
update_document_status(doc, status, metadata) ==
    IF ~doc_exists(doc) THEN [ok |-> FALSE, doc |-> doc]
    ELSE write_status(doc, status, metadata)

(***************************************************************************)
(* firestore_client.py: clause records                                     *)
(***************************************************************************)
\* clause_data with the enumerate index itself as order
clause_data_zero_based(i, clause, summary_result) ==
    [order |-> i - 1,
     original_text |-> [len |-> clause.len, tok |-> clause.tok, of |-> clause.cid],
     summary |-> summary_result.src,
     processing_method |-> summary_result.processing_method,
     embedding |-> FALSE]

\* clause_data assembled by process_document_complete for position i
\* (clause_id {doc_id}_clause_{i-1}, order i)
clause_data(i, clause, summary_result) ==
    [order |-> i,
     original_text |-> [len |-> clause.len, tok |-> clause.tok, of |-> clause.cid],
     summary |-> summary_result.src,
     processing_method |-> summary_result.processing_method,
     embedding |-> FALSE]

clauses_data(cands, results) ==
    [i \in 1..Min(Len(cands), Len(results)) |-> clause_data(i, cands[i], results[i])]

\* create_clauses: one batch of set() on the clause ids, committed at once
create_clauses(stored, data) ==
    [i \in (DOMAIN stored) \cup (DOMAIN data) |->
        IF i \in DOMAIN data THEN data[i] ELSE stored[i]]

\* _update_clause_count: an update of the document record, errors swallowed
update_clause_count(doc, count) == DocRefUpdate(doc, [clause_count |-> count]).doc

\* update_clause_embeddings: the items in chunks of MAX_WRITES_PER_BATCH
num_batches(total_items) == (total_items + MAX_WRITES_PER_BATCH - 1) \div MAX_WRITES_PER_BATCH

chunk_of(idx) == (idx - 1) \div MAX_WRITES_PER_BATCH

\* ids is the list of clause ids that got a vector; the chunks in failed
\* are rejected by the store, every other chunk is committed
update_clause_embeddings(stored, ids, failed) ==
    LET written == {ids[k] : k \in {j \in 1..Len(ids) : chunk_of(j) \notin failed}}
    IN  [ok |-> failed = {},
         clauses |-> [i \in DOMAIN stored |->
                        IF i \in written THEN [stored[i] EXCEPT !.embedding = TRUE]
                        ELSE stored[i]]]

ChunkSets(n) == SUBSET (0..(num_batches(n) - 1))

\* what generate_embeddings_batch does for n texts: it raises EmbeddingsError
\* (EmbedRaises), or it returns a list in which the first k texts have a
\* non-empty vector (k)
EmbedRaises == -1

EmbedOutcomes(n) == {EmbedRaises} \cup (0..n)

(***************************************************************************)
(* Initial values                                                          *)
(***************************************************************************)
NoCache == [present |-> FALSE, clauses |-> <<>>]

\* no call of analyze_clause_risk yet
NoRisk == [pc |-> "idle"]

\* no question request yet
NoRequest == [received |-> FALSE]

\* no answer built
NoAnswer == [content |-> "none", confidence |-> 0, sources |-> 0]

\* a handler before its request: position, collaborator calls and scheduled
\* tasks so far, frames or HTTP status sent, answer
\* the two question requests on one chat session
Asks == {1, 2}

\* a request not yet issued: the endpoint it is sent to, its position, the
\* conversation_context_used of its response, whether it was issued after
\* every other response had been received, its background tasks
IdleAsk ==
    [endpoint |-> "none", pc |-> "idle", context_used |-> FALSE,
     after_response |-> FALSE, tasks |-> <<>>]

\* no text has been given to the privacy service
NoPrivacy ==
    [pc |-> "idle", text |-> <<>>, detector |-> "none", matches |-> <<>>,
     masked_text |-> <<>>, unmasked_text |-> <<>>]

\* no question under way
NoGrounded ==
    [pc |-> "idle", endpoint |-> "none", relevant |-> <<>>,
     response |-> [json |-> FALSE, used_clause_numbers |-> <<>>, used_clause_ids |-> <<>>],
     used_clause_ids |-> <<>>, sources |-> <<>>]

\* no chunked write under way
NoChunked ==
    [pc |-> "idle", total_items |-> 0, batch_num |-> 0, attempts |-> <<>>,
     written |-> {}, successful_batches |-> 0, failed_batches |-> <<>>,
     outcome |-> "none"]

\* no extraction under way
NoExtraction ==
    [pc |-> "idle", file_size |-> 0, pages |-> 0, mime_type |-> "none",
     outcome |-> "none", method |-> "none", text |-> 0, page_count |-> 0]

\* no call of _process_batch under way
NoSplit ==
    [pc |-> "idle", batch |-> <<>>, stack |-> <<>>, results |-> <<>>, outcome |-> "none"]

\* no analysis tasks exist
NoAnalysis ==
    [pc |-> "idle", n |-> 0, tasks |-> <<>>, completed |-> <<>>, persisted |-> <<>>]

\* _create_batches has not been called
NoPacking == [pc |-> "idle", clauses |-> <<>>, batches |-> <<>>]

\* the regex detector has found nothing yet
NoOverlaps == [pc |-> "finding", detected_pii |-> <<>>, filtered_matches |-> <<>>]

\* the validation pass has not been called
NoMerging == [pc |-> "idle", clauses |-> <<>>, validated |-> <<>>]

\* no question has been asked
NoResolving ==
    [pc |-> "idle", auto_detect_language |-> FALSE, language_override |-> "none",
     language |-> "en", detected_language |-> "none", confidence |-> 0,
     unary |-> "none", stream |-> "none"]

\* no question has been answered
NoPersisting ==
    [pc |-> "idle", endpoint |-> "none", chat_session_id |-> FALSE,
     qa_result |-> [answer |-> "none", confidence |-> 0],
     received |-> <<>>, tasks |-> <<>>, persisted |-> <<>>, logged |-> <<>>]

\* DocumentProcessor.__init__: no client and no processor name yet
NewProcessor ==
    [pc |-> "idle", doc_ai_client |-> FALSE, processor_name |-> "none",
     mime_type |-> "none", request |-> [name |-> "none", mime_type |-> "none"],
     sent |-> <<>>, methods |-> <<>>]

IdleHandler == [pc |-> "idle", steps |-> <<>>, out |-> <<>>, answer |-> NoAnswer]

Callers == {1, 2}

IdleCaller == [pc |-> "idle", status |-> "none", error |-> FALSE, result |-> "none"]

NoInput == [lens |-> <<>>, pii |-> 0]

\* no ingestion task has run
InitTask ==
    /\ store_clauses = <<>>
    /\ stages_completed = <<>>
    /\ result_status = "none"
    /\ raised_in = 0
    /\ masked_text = 0
    /\ summarization_results = <<>>
    /\ token_counter = 0

\* no call of a client, an endpoint or a component is under way
InitServices ==
    /\ bs_pc = "idle"
    /\ batches = <<>>
    /\ pending = {}
    /\ all_results = <<>>
    /\ ingest_response = "none"
    /\ status_reply = "none"
    /\ qa_pc = "idle"
    /\ qa_clauses = <<>>
    /\ qa_reply = "none"
    /\ cache = NoCache
    /\ callers = [p \in Callers |-> IdleCaller]
    /\ first_clauses = <<>>
    /\ answers = {}
    /\ risk = NoRisk
    /\ request = NoRequest
    /\ unary = IdleHandler
    /\ stream = IdleHandler
    /\ session_log = <<>>
    /\ asks = [i \in Asks |-> IdleAsk]
    /\ events = <<>>
    /\ privacy = NoPrivacy
    /\ grounded = NoGrounded
    /\ chunked = NoChunked
    /\ extraction = NoExtraction
    /\ split = NoSplit
    /\ analysis = NoAnalysis
    /\ packing = NoPacking
    /\ overlaps = NoOverlaps
    /\ merging = NoMerging
    /\ resolving = NoResolving
    /\ persisting = NoPersisting
    /\ processor = NewProcessor

InitCommon == InitTask /\ InitServices

\* the answer x of collaborator k (call idx), as recorded
Entry(k, idx, x) == <<k, idx, ToString(x)>>

\* the answers the collaborators gave the first of two runs
Log(k, idx, x) ==
    IF run = 1 THEN answers \cup {Entry(k, idx, x)} ELSE answers

\* collaborator k answers x to call idx; in the second of two runs every
\* collaborator repeats the answer it gave the first run
Answer(k, idx, x) ==
    /\ run = 2 => Entry(k, idx, x) \in answers
    /\ answers' = Log(k, idx, x)

(***************************************************************************)
(* gemini_client.py: batch_summarize_clauses                               *)
(***************************************************************************)
\* after initialize(): the batches and one task per batch
summarize_begin(clauses) ==
    /\ batches' = create_batches(clauses, MAX_CLAUSES_PER_BATCH)
    /\ pending' = 1..Len(create_batches(clauses, MAX_CLAUSES_PER_BATCH))
    /\ all_results' = <<>>
    /\ bs_pc' = "running"

\* a batch task completes; as_completed hands its results to the loop,
\* which extends all_results with them
BatchTaskDone ==
    /\ bs_pc = "running"
    /\ \E b \in pending :
         \E outs \in [1..Len(batches[b]) -> Outcomes] :
            /\ all_results' = all_results \o process_batch_with_retry(batches[b], outs)
            /\ pending' = pending \ {b}
            /\ Answer("llm", b, outs)
    /\ UNCHANGED <<bs_pc, batches>>
    /\ UNCHANGED <<storeVars, taskVars, apiVars, qaVars, callers, run, first_clauses, extVars>>

\* every task has completed: return all_results
SummarizeReturn ==
    /\ bs_pc = "running"
    /\ pending = {}
    /\ bs_pc' = "returned"
    /\ UNCHANGED <<batches, pending, all_results>>
    /\ UNCHANGED <<storeVars, taskVars, apiVars, qaVars, callers, rerunVars, extVars>>

(***************************************************************************)
(* documents.py: ingest_document                                           *)
(***************************************************************************)
\* add_task reached whether or not create_document returned
add_task_always(created) == TRUE

\* add_task is reached only when create_document returned
add_task_reached(created) == created

IngestDocument ==
    /\ ingest_response = "none"
    /\ pc = "none"
    /\ \/ \* no filename, file too large or unsupported type
          /\ ingest_response' \in {"400", "413"}
          /\ UNCHANGED <<store_doc, pc, doc_input>>
       \/ \E lens \in DocLens, pii \in 0..MaxPII, created \in BOOLEAN :
            /\ lens = <<>> => pii = 0
            /\ store_doc' = IF created THEN create_document_data ELSE store_doc
            /\ pc' = IF add_task_reached(created) THEN "queued" ELSE "none"
            /\ doc_input' = IF add_task_reached(created)
                            THEN [lens |-> lens, pii |-> pii] ELSE doc_input
            /\ ingest_response' = IF created THEN "200" ELSE "500"
    /\ UNCHANGED <<store_clauses, stages_completed, result_status, raised_in,
                   masked_text, clause_candidates, summarization_results,
                   token_counter, status_reply>>
    /\ UNCHANGED <<batchVars, qaVars, callers, rerunVars, extVars>>

(***************************************************************************)
(* document_orchestrator.py: process_document_complete                     *)
(***************************************************************************)
NoMeta == [page_count |-> 0]

\* a stage raised: control goes to the except block
Fail(k) ==
    /\ pc' = "except"
    /\ raised_in' = k

\* a store call of the task: the store rejects it (GoogleAPIError), or the
\* client performs it
StoreAnswers == {"ok", "store_rejects"}

\* Stage 1: text extraction, then the page count update
Stage1Extract ==
    /\ pc = "queued"
    /\ result_status' = "processing"
    /\ \E o \in {"extract_raises"} \cup StoreAnswers :
         LET u == update_document_status(store_doc, PROCESSING, NoMeta)
         IN  /\ Answer("stage1", 0, o)
             /\ IF o = "extract_raises"
                THEN /\ Fail(1)
                     /\ UNCHANGED <<stages_completed, store_doc>>
                ELSE /\ stages_completed' = Append(stages_completed, "text_extraction")
                     /\ IF o = "ok" /\ u.ok
                        THEN /\ store_doc' = u.doc
                             /\ pc' = "s2"
                             /\ UNCHANGED raised_in
                        ELSE /\ Fail(1)
                             /\ UNCHANGED store_doc
    /\ UNCHANGED <<store_clauses, doc_input, masked_text, clause_candidates,
                   summarization_results, token_counter>>
    /\ UNCHANGED <<batchVars, apiVars, qaVars, callers, run, first_clauses, extVars>>

\* _generate_replacement_token: the counter of the service instance
generate_replacement_token(counter) == counter + 1

\* Stage 2: PII detection and masking (the regex catalog when the scanner
\* fails), then the masking info update
Stage2Privacy ==
    /\ pc = "s2"
    /\ token_counter' = token_counter + doc_input.pii
    /\ masked_text' = IF doc_input.pii > 0
                      THEN generate_replacement_token(token_counter) ELSE 0
    /\ stages_completed' = Append(stages_completed, "privacy_masking")
    /\ \E o \in StoreAnswers :
         LET u == update_document_status(store_doc, PROCESSING, NoMeta)
         IN  /\ Answer("stage2", 0, o)
             /\ IF o = "ok" /\ u.ok
                THEN /\ store_doc' = u.doc
                     /\ pc' = "s3"
                     /\ UNCHANGED raised_in
                ELSE /\ Fail(2)
                     /\ UNCHANGED store_doc
    /\ UNCHANGED <<store_clauses, doc_input, result_status, clause_candidates,
                   summarization_results>>
    /\ UNCHANGED <<batchVars, apiVars, qaVars, callers, run, first_clauses, extVars>>

\* Stage 3: segmentation of the masked text and clause types
Stage3Segment ==
    /\ pc = "s3"
    /\ clause_candidates' = CandidatesOf(doc_input.lens, masked_text)
    /\ stages_completed' = Append(stages_completed, "clause_segmentation")
    /\ IF doc_input.lens = <<>>
       THEN Fail(3)
       ELSE pc' = "s4" /\ UNCHANGED raised_in
    /\ UNCHANGED <<storeVars, doc_input, result_status, masked_text,
                   summarization_results, token_counter>>
    /\ UNCHANGED <<batchVars, apiVars, qaVars, callers, rerunVars, extVars>>

\* update_document_readability of the store client (awaited by stage 4, not
\* defined in firestore_client.py): an update of the document record
update_document_readability(doc) == DocRefUpdate(doc, NoMeta)

\* Stage 4: baseline readability and its store update
Stage4Baseline ==
    /\ pc = "s4"
    /\ \E o \in StoreAnswers :
         LET u == update_document_readability(store_doc)
         IN  /\ Answer("stage4", 0, o)
             /\ IF o = "ok" /\ u.found
                THEN /\ store_doc' = u.doc
                     /\ stages_completed' = Append(stages_completed, "baseline_readability")
                     /\ pc' = "s5"
                     /\ UNCHANGED raised_in
                ELSE /\ Fail(5)
                     /\ UNCHANGED <<store_doc, stages_completed>>
    /\ UNCHANGED <<store_clauses, doc_input, result_status, masked_text,
                   clause_candidates, summarization_results, token_counter>>
    /\ UNCHANGED <<batchVars, apiVars, qaVars, callers, run, first_clauses, extVars>>

\* Stage 5: batch_summarize_clauses is awaited
Stage5Summarize ==
    /\ pc = "s5"
    /\ bs_pc = "idle"
    /\ \/ \* initialize() raises GeminiError (the client is not yet initialized)
          /\ run # 2
          /\ Fail(6)
          /\ UNCHANGED batchVars
       \/ /\ summarize_begin(clause_candidates)
          /\ pc' = "s5_wait"
          /\ UNCHANGED raised_in
    /\ UNCHANGED <<storeVars, doc_input, stages_completed, result_status,
                   masked_text, clause_candidates, summarization_results,
                   token_counter>>
    /\ UNCHANGED <<apiVars, qaVars, callers, rerunVars, extVars>>

Stage5Return ==
    /\ pc = "s5_wait"
    /\ bs_pc = "returned"
    /\ summarization_results' = all_results
    /\ stages_completed' = Append(stages_completed, "ai_summarization")
    /\ bs_pc' = "idle"
    /\ batches' = <<>>
    /\ all_results' = <<>>
    /\ pc' = "s67"
    /\ UNCHANGED pending
    /\ UNCHANGED <<storeVars, doc_input, result_status, raised_in, masked_text,
                   clause_candidates, token_counter>>
    /\ UNCHANGED <<apiVars, qaVars, callers, rerunVars, extVars>>

\* Stages 6 and 7: the risk and readability tasks, gathered
Stage67Analyze ==
    /\ pc = "s67"
    /\ \E o \in {"ok", "task_raises"} :
         /\ Answer("stage67", 0, o)
         /\ IF o = "ok"
            THEN /\ stages_completed' =
                        stages_completed \o <<"risk_analysis", "readability_analysis">>
                 /\ pc' = "s8"
                 /\ UNCHANGED raised_in
            ELSE /\ Fail(7)
                 /\ UNCHANGED stages_completed
    /\ UNCHANGED <<storeVars, doc_input, result_status, masked_text,
                   clause_candidates, summarization_results, token_counter>>
    /\ UNCHANGED <<batchVars, apiVars, qaVars, callers, run, first_clauses, extVars>>

\* Stage 8: clause data assembled by position and stored
Stage8Store ==
    /\ pc = "s8"
    /\ \E o \in StoreAnswers \cup {"count_rejected"} :
         LET data == clauses_data(clause_candidates, summarization_results)
         IN  /\ Answer("stage8", 0, o)
             /\ IF o = "store_rejects"
                THEN /\ Fail(9)
                     /\ UNCHANGED <<storeVars, stages_completed>>
                ELSE /\ store_clauses' = create_clauses(store_clauses, data)
                     /\ store_doc' = IF o = "ok"
                                     THEN update_clause_count(store_doc, Len(data))
                                     ELSE store_doc
                     /\ stages_completed' = Append(stages_completed, "data_storage")
                     /\ pc' = "s85"
                     /\ UNCHANGED raised_in
    /\ UNCHANGED <<doc_input, result_status, masked_text, clause_candidates,
                   summarization_results, token_counter>>
    /\ UNCHANGED <<batchVars, apiVars, qaVars, callers, run, first_clauses, extVars>>

\* the clause ids 1..k as a list
Ids(k) == [i \in 1..k |-> i]

\* Stage 8.5: _generate_clause_embeddings inside try / except EmbeddingsError
Stage85Embeddings ==
    /\ pc = "s85"
    /\ \E e \in EmbedOutcomes(Len(summarization_results)) :
         IF e \in {EmbedRaises, 0}
         THEN \* EmbeddingsError, raised by the provider or for no valid vector
              /\ Answer("stage85", 0, e)
              /\ stages_completed' = Append(stages_completed, "embeddings_generation_failed")
              /\ pc' = "s10"
              /\ UNCHANGED <<raised_in, store_clauses>>
         ELSE \E failed \in ChunkSets(e) :
                LET u == update_clause_embeddings(store_clauses, Ids(e), failed)
                IN  /\ Answer("stage85", e, failed)
                    /\ store_clauses' = u.clauses
                    /\ IF u.ok
                       THEN /\ stages_completed' =
                                   Append(stages_completed, "embeddings_generation")
                            /\ pc' = "s10"
                            /\ UNCHANGED raised_in
                       ELSE \* FirestoreError is not an EmbeddingsError
                            /\ Fail(10)
                            /\ UNCHANGED stages_completed
    /\ UNCHANGED <<store_doc, doc_input, result_status, masked_text,
                   clause_candidates, summarization_results, token_counter>>
    /\ UNCHANGED <<batchVars, apiVars, qaVars, callers, run, first_clauses, extVars>>

\* Stages 9 and 10: document level analytics, then the final status update
Stage10Final ==
    /\ pc = "s10"
    /\ \E o \in StoreAnswers :
         LET u == update_document_status(store_doc, COMPLETED, NoMeta)
         IN  /\ Answer("stage10", 0, o)
             /\ IF o = "ok" /\ u.ok
                THEN /\ store_doc' = u.doc
                     /\ result_status' = "completed"
                     /\ pc' = "done"
                     /\ UNCHANGED raised_in
                ELSE /\ Fail(12)
                     /\ UNCHANGED <<store_doc, result_status>>
    /\ UNCHANGED <<store_clauses, doc_input, stages_completed, masked_text,
                   clause_candidates, summarization_results, token_counter>>
    /\ UNCHANGED <<batchVars, apiVars, qaVars, callers, run, first_clauses, extVars>>

\* failed_at_stage one above the number of completed stages
failed_at_stage_next(stages) == Len(stages) + 1

\* the failed_at_stage the except block records
failed_at_stage_of(stages) == Len(stages)

\* the except block: the result is marked failed, the store is asked to mark
\* the document failed (an error of that update is only logged), and the
\* exception is raised again
HandleFailure ==
    /\ pc = "except"
    /\ result_status' = "failed"
    /\ \E o \in StoreAnswers :
         LET u == update_document_status(
                      store_doc, FAILED,
                      [error |-> TRUE,
                       failed_at_stage |-> failed_at_stage_of(stages_completed)])
         IN  /\ Answer("except", 0, o)
             /\ store_doc' = IF o = "ok" /\ u.ok THEN u.doc ELSE store_doc
    /\ pc' = "bg_except"
    /\ UNCHANGED <<store_clauses, doc_input, stages_completed, raised_in,
                   masked_text, clause_candidates, summarization_results,
                   token_counter>>
    /\ UNCHANGED <<batchVars, apiVars, qaVars, callers, run, first_clauses, extVars>>

\* documents.py, process_document_background: the except block marks the
\* document failed once more and raises
BackgroundFailure ==
    /\ pc = "bg_except"
    /\ \E o \in StoreAnswers :
         LET u == update_document_status(store_doc, FAILED, [error |-> TRUE])
         IN  /\ Answer("background", 0, o)
             /\ store_doc' = IF o = "ok" /\ u.ok THEN u.doc ELSE store_doc
    /\ pc' = "raised"
    /\ UNCHANGED <<store_clauses, doc_input, stages_completed, result_status,
                   raised_in, masked_text, clause_candidates,
                   summarization_results, token_counter>>
    /\ UNCHANGED <<batchVars, apiVars, qaVars, callers, run, first_clauses, extVars>>

Pipeline ==
    \/ Stage1Extract \/ Stage2Privacy \/ Stage3Segment \/ Stage4Baseline
    \/ Stage5Summarize \/ BatchTaskDone \/ SummarizeReturn \/ Stage5Return
    \/ Stage67Analyze \/ Stage8Store \/ Stage85Embeddings \/ Stage10Final
    \/ HandleFailure \/ BackgroundFailure

(***************************************************************************)
(* document_orchestrator.py: get_processing_status (GET /status/{doc_id})  *)
(***************************************************************************)
GetDocumentStatus ==
    /\ status_reply' = IF store_doc.exists THEN store_doc.status ELSE "not_found"
    /\ UNCHANGED ingest_response
    /\ UNCHANGED <<storeVars, taskVars, batchVars, qaVars, callers, rerunVars, extVars>>

(***************************************************************************)
(* qa.py: ask_question up to the similarity search                         *)
(***************************************************************************)
\* the clauses of a list that carry a non-empty embedding
clauses_with_embeddings(clauses) == {i \in DOMAIN clauses : clauses[i].embedding}

\* the request is refused as not ready only while the document is processing
not_ready_processing_only(document) == document.exists /\ document.status = PROCESSING

\* "if document and document.get('status') != 'completed'": HTTP 422
not_ready(document) == document.exists /\ document.status # COMPLETED

\* the clause list is taken from the cache or from the store (and cached);
\* no clause: 404; some clause with a vector: on to the search
AskFetchClauses ==
    /\ qa_pc = "idle"
    /\ LET clauses == IF cache.present THEN cache.clauses ELSE store_clauses
       IN  /\ cache' = IF ~cache.present /\ clauses # <<>>
                       THEN [present |-> TRUE, clauses |-> clauses] ELSE cache
           /\ qa_clauses' = clauses
           /\ IF clauses = <<>>
              THEN qa_reply' = "404" /\ qa_pc' = "idle"
              ELSE /\ qa_reply' = "none"
                   /\ qa_pc' = IF clauses_with_embeddings(clauses) # {}
                               THEN "search" ELSE "check_status"
    /\ UNCHANGED <<storeVars, taskVars, batchVars, apiVars, callers, rerunVars, extVars>>

\* no clause has a vector: the document status decides
AskCheckStatus ==
    /\ qa_pc = "check_status"
    /\ IF not_ready(store_doc)
       THEN qa_reply' = "422" /\ qa_pc' = "idle" /\ qa_clauses' = <<>>
       ELSE qa_reply' = qa_reply /\ qa_pc' = "backfill" /\ UNCHANGED qa_clauses
    /\ UNCHANGED cache
    /\ UNCHANGED <<storeVars, taskVars, batchVars, apiVars, callers, rerunVars, extVars>>

\* _generate_and_store_embeddings on the local clause list, then the reload
AskBackfill ==
    /\ qa_pc = "backfill"
    /\ \E e \in EmbedOutcomes(Len(qa_clauses)) :
         IF e = EmbedRaises
         THEN /\ qa_reply' = "500" /\ qa_pc' = "idle"
              /\ qa_clauses' = <<>>
              /\ UNCHANGED store_clauses
         ELSE \E failed \in ChunkSets(e) :
                LET u == update_clause_embeddings(store_clauses, Ids(e), failed)
                IN  /\ store_clauses' = u.clauses
                    /\ IF ~u.ok
                       THEN /\ qa_reply' = "500" /\ qa_pc' = "idle"
                            /\ qa_clauses' = <<>>
                       ELSE IF clauses_with_embeddings(u.clauses) = {}
                       THEN /\ qa_reply' = "500" /\ qa_pc' = "idle"
                            /\ qa_clauses' = <<>>
                       ELSE /\ qa_reply' = "none" /\ qa_pc' = "search"
                            /\ qa_clauses' = u.clauses
    /\ UNCHANGED cache
    /\ UNCHANGED <<store_doc, taskVars, batchVars, apiVars, callers, rerunVars, extVars>>

\* similarity search and answer; a collaborator that raises gives HTTP 500
AskAnswer ==
    /\ qa_pc = "search"
    /\ qa_reply' \in {"200", "500"}
    /\ qa_pc' = "idle"
    /\ qa_clauses' = <<>>
    /\ UNCHANGED cache
    /\ UNCHANGED <<storeVars, taskVars, batchVars, apiVars, callers, rerunVars, extVars>>

\* cache_service: the entry expires (TTL 1800 s)
CacheExpire ==
    /\ cache.present
    /\ cache' = NoCache
    /\ UNCHANGED <<qa_pc, qa_clauses, qa_reply>>
    /\ UNCHANGED <<storeVars, taskVars, batchVars, apiVars, callers, rerunVars, extVars>>

Ask == AskFetchClauses \/ AskCheckStatus \/ AskBackfill \/ AskAnswer \/ CacheExpire

(***************************************************************************)
(* Spec: the service                                                       *)
(***************************************************************************)
\* no document, no task, no request yet
InitIdle ==
    /\ InitCommon
    /\ store_doc = NoDoc
    /\ pc = "none"
    /\ doc_input = NoInput
    /\ run = 0

Init ==
    /\ InitIdle
    /\ clause_candidates = <<>>

Next == IngestDocument \/ Pipeline \/ GetDocumentStatus \/ Ask

Spec == Init /\ [][Next]_vars

(***************************************************************************)
(* SpecBatch: batch_summarize_clauses on every bounded clause list         *)
(***************************************************************************)
\* a caller awaits batch_summarize_clauses(clause_candidates)
Summarize ==
    /\ bs_pc = "idle"
    /\ \/ \* initialize() raises GeminiError
          /\ bs_pc' = "raised"
          /\ UNCHANGED <<batches, pending, all_results>>
       \/ summarize_begin(clause_candidates)
    /\ UNCHANGED <<storeVars, taskVars, apiVars, qaVars, callers, rerunVars, extVars>>

InitBatch ==
    /\ InitIdle
    /\ clause_candidates \in {CandidatesOf(lens, 0) : lens \in AllLens}

NextBatch == Summarize \/ BatchTaskDone \/ SummarizeReturn

SpecBatch == InitBatch /\ [][NextBatch]_vars

\* C1: when batch_summarize_clauses returns, element i of the returned list
\* is the result computed from input clause i, whatever the order in which
\* the batch tasks completed.
C1_OutputMatchesInput ==
    bs_pc = "returned" =>
        \A i \in 1..Len(all_results) :
            /\ i <= Len(clause_candidates)
            /\ all_results[i].src = clause_candidates[i].cid

\* C2: the list batch_summarize_clauses returns has exactly as many elements
\* as its input list, for every combination of batch outcomes.
C2_LengthPreserved ==
    bs_pc = "returned" => Len(all_results) = Len(clause_candidates)

\* a call split into two or more batches has returned, with fallback
\* results beside results of the LLM
C2_Witness ==
    /\ bs_pc = "returned"
    /\ Len(batches) >= 2
    /\ \E i \in 1..Len(all_results) : all_results[i].processing_method = "fallback"
    /\ \E i \in 1..Len(all_results) : all_results[i].processing_method = "gemini"

(***************************************************************************)
(* Properties of the service (Spec)                                        *)
(***************************************************************************)
Terminal == {COMPLETED, FAILED}

FailurePcs == {"except", "bg_except", "raised"}

\* C3: the stored status of a document starts as processing, and once it is
\* completed or failed no step of the ingestion task, of a status query or
\* of an ask changes it to a different status.
C3_StatusMonotonic ==
    [][/\ (~store_doc.exists /\ store_doc'.exists) => store_doc'.status = PROCESSING
       /\ store_doc.status \in Terminal => store_doc'.status = store_doc.status]_vars

\* the document is failed, and a status query and an ask have been answered
\* on the failed document
C3_Witness ==
    /\ store_doc.status = FAILED
    /\ pc = "raised"
    /\ status_reply = FAILED
    /\ qa_reply = "422"

\* C4: when the embedding stage fails after the clauses were stored, the
\* pipeline goes on to the final status update with
\* embeddings_generation_failed in stages_completed: a pipeline that raised
\* after data_storage has recorded the outcome of the embedding stage.
C4_EmbeddingFailureNotFatal ==
    (pc \in FailurePcs /\ "data_storage" \in Range(stages_completed)) =>
        \/ "embeddings_generation_failed" \in Range(stages_completed)
        \/ "embeddings_generation" \in Range(stages_completed)

C6_NoClauseWriteAfterFailed ==
    [][store_doc.status = FAILED => store_clauses' = store_clauses]_vars

\* an ask has found stored clauses without vectors and checks the status of
\* a document that is failed
C6_Witness ==
    /\ store_doc.status = FAILED
    /\ store_clauses # <<>>
    /\ qa_pc = "check_status"

\* C7: a scheduled ingestion task has its document record in the store; a
\* failed create_document schedules nothing; and a status query made after
\* the ingest response never finds the document missing.
C7_CreateBeforeEnqueue ==
    /\ [](pc # "none" => store_doc.exists)
    /\ [](ingest_response = "500" => pc = "none" /\ ~store_doc.exists)
    /\ [][ingest_response = "200" => (status_reply' # "not_found" \/ status_reply' = status_reply)]_vars

\* the ingest was accepted, the task has made its first status update and a
\* status query was answered
C7_Witness ==
    /\ ingest_response = "200"
    /\ pc = "s2"
    /\ status_reply = PROCESSING

(***************************************************************************)
(* SpecStore: update_document_status called by concurrent clients of the   *)
(* store, its existence check and its update as separate steps, while      *)
(* another client of the store may delete the record                       *)
(***************************************************************************)
StatusValues == {PROCESSING, COMPLETED, FAILED}

\* the metadata the callers of update_document_status pass
Metadatas == {NoMeta, [error |-> TRUE]}

\* create_document of some client
StoreCreate ==
    /\ ~store_doc.exists
    /\ store_doc' = create_document_data
    /\ UNCHANGED <<store_clauses, taskVars, batchVars, apiVars, qaVars, callers, rerunVars, extVars>>

\* another client of the store deletes the record
StoreDelete ==
    /\ store_doc.exists
    /\ store_doc' = NoDoc
    /\ UNCHANGED <<store_clauses, taskVars, batchVars, apiVars, qaVars, callers, rerunVars, extVars>>

\* update_document_status(doc_id, status, metadata) up to its existence
\* check: doc_ref.get(), FirestoreError when the record does not exist
UdsCheck(p) ==
    /\ callers[p].pc = "idle"
    /\ \E status \in StatusValues, metadata \in Metadatas :
         callers' = [callers EXCEPT ![p] =
            IF doc_exists(store_doc)
            THEN [pc |-> "checked", status |-> status,
                  error |-> "error" \in DOMAIN metadata, result |-> "none"]
            ELSE [pc |-> "idle", status |-> status,
                  error |-> "error" \in DOMAIN metadata, result |-> "error_check"]]
    /\ UNCHANGED <<storeVars, taskVars, batchVars, apiVars, qaVars, rerunVars, extVars>>

\* the rest of update_document_status: doc_ref.update(update_data); the
\* store rejects the call (GoogleAPIError), or it performs it
UdsUpdate(p) ==
    /\ callers[p].pc = "checked"
    /\ \/ /\ callers' = [callers EXCEPT ![p].pc = "idle", ![p].result = "error_api"]
          /\ UNCHANGED store_doc
       \/ LET metadata == IF callers[p].error THEN [error |-> TRUE] ELSE NoMeta
              w == write_status(store_doc, callers[p].status, metadata)
          IN  /\ store_doc' = IF w.ok THEN w.doc ELSE store_doc
              /\ callers' = [callers EXCEPT
                    ![p].pc = "idle",
                    ![p].result = IF w.ok THEN "ok" ELSE "error_update"]
    /\ UNCHANGED <<store_clauses, taskVars, batchVars, apiVars, qaVars, rerunVars, extVars>>

InitStore ==
    /\ InitIdle
    /\ clause_candidates = <<>>

NextStore ==
    \/ StoreCreate
    \/ StoreDelete
    \/ \E p \in Callers : UdsCheck(p)
    \/ \E p \in Callers : UdsUpdate(p)

SpecStore == InitStore /\ [][NextStore]_vars

\* C8: update_document_status changes the stored status only from
\* processing: a step that leaves a completed or failed record in the store
\* leaves its status as it was.
C8_GuardedTransition ==
    [][(store_doc.status \in Terminal /\ store_doc'.exists)
            => store_doc'.status = store_doc.status]_vars

\* C9: a call of update_document_status that ends while the document has no
\* record ends with an error and leaves the store as it was, whether the
\* record was missing at the existence check or disappeared before the
\* update; and no step of update_document_status creates a record.
C9_MissingDocumentFails ==
    [][\A p \in Callers :
         /\ (callers'[p] # callers[p] /\ callers'[p].pc = "idle" /\ ~store_doc.exists)
                => (callers'[p].result \in {"error_check", "error_update", "error_api"}
                       /\ store_doc' = store_doc)
         /\ (callers'[p] # callers[p] /\ ~store_doc.exists) => ~store_doc'.exists]_vars

\* a call passed its existence check, the record was deleted, and the
\* update failed on the missing record
C9_Witness ==
    /\ ~store_doc.exists
    /\ \E p \in Callers : callers[p].result = "error_update"

(***************************************************************************)
(* SpecRerun: process_document_complete run twice on the same service      *)
(* instances for the same doc_id and the same input                        *)
(***************************************************************************)
\* the second call of process_document_complete(doc_id, ...) after the first
\* one returned: a new processing_result and new locals, the same store and
\* the same PrivacyService instance
Rerun ==
    /\ run = 1
    /\ pc = "done"
    /\ run' = 2
    /\ first_clauses' = store_clauses
    /\ pc' = "queued"
    /\ stages_completed' = <<>>
    /\ result_status' = "none"
    /\ raised_in' = 0
    /\ masked_text' = 0
    /\ clause_candidates' = <<>>
    /\ summarization_results' = <<>>
    /\ UNCHANGED <<storeVars, doc_input, token_counter, answers>>
    /\ UNCHANGED <<batchVars, apiVars, qaVars, callers, extVars>>

RerunInputs ==
    {[lens |-> lens, pii |-> pii] :
        lens \in DocLens \ {<<>>}, pii \in 0..MaxPII}

\* the document record exists and the first run is scheduled
InitRerun ==
    /\ InitCommon
    /\ store_doc = create_document_data
    /\ pc = "queued"
    /\ doc_input \in RerunInputs
    /\ run = 1
    /\ clause_candidates = <<>>

NextRerun == Pipeline \/ Rerun

SpecRerun == InitRerun /\ [][NextRerun]_vars

\* C10: when the second run has completed and every collaborator gave it
\* the answers it gave the first run, the clause records are those the
\* first run left.
C10_RerunIdempotent ==
    (run = 2 /\ pc = "done") => store_clauses = first_clauses

(***************************************************************************)
(* SpecAssemble: stage 8 of process_document_complete on every bounded     *)
(* clause candidate list and every summary list that is not longer         *)
(***************************************************************************)
\* batch_summarize_clauses has returned k results for the candidates; the
\* risk and readability tasks, one per zipped pair, have been gathered
SummariesReturned ==
    /\ pc = "none"
    /\ \E k \in 0..Len(clause_candidates) :
         \E fb \in SUBSET (1..k) :
            summarization_results' =
                [i \in 1..k |->
                    IF i \in fb
                    THEN create_fallback_result(clause_candidates[i], i - 1)
                    ELSE validate_result(clause_candidates[i], i - 1)]
    /\ pc' = "s8"
    /\ UNCHANGED <<storeVars, doc_input, stages_completed, result_status, raised_in,
                   masked_text, clause_candidates, token_counter>>
    /\ UNCHANGED <<batchVars, apiVars, qaVars, callers, rerunVars, extVars>>

InitAssemble ==
    /\ InitIdle
    /\ clause_candidates \in {CandidatesOf(lens, 0) : lens \in AllLens}

NextAssemble == SummariesReturned \/ Stage8Store

SpecAssemble == InitAssemble /\ [][NextAssemble]_vars

\* the order values of the persisted clauses
Orders == {store_clauses[id].order : id \in DOMAIN store_clauses}

\* C11: the order values of the persisted clauses are exactly 1..N, N the
\* number of persisted clauses, without gap or duplicate, also when fewer
\* summaries than clause candidates were returned.
C11_OrdersAreOneToN ==
    /\ Orders = 1..Cardinality(DOMAIN store_clauses)
    /\ \A a, b \in DOMAIN store_clauses :
         store_clauses[a].order = store_clauses[b].order => a = b

\* clauses were persisted from a summary list shorter than the candidate list
C11_Witness ==
    /\ pc = "s85"
    /\ Len(summarization_results) < Len(clause_candidates)
    /\ Cardinality(DOMAIN store_clauses) = 2

(***************************************************************************)
(* risk_analyzer.py.  Scores are in thousandths (1000 is the score 1.0).   *)
(***************************************************************************)
\* most matches of one keyword pattern in a clause
MaxMatches == 2

\* four entries of the keyword catalog: the risk weight, whether the entry
\* has negative contexts, and how many distinct strings its pattern matches
RiskKeywords ==
    <<[keyword |-> "indemnify|indemnification|indemnities", risk_weight |-> 800,
       negative_contexts |-> TRUE, forms |-> 3],
      [keyword |-> "hold harmless", risk_weight |-> 900,
       negative_contexts |-> FALSE, forms |-> 1],
      [keyword |-> "unlimited", risk_weight |-> 950,
       negative_contexts |-> FALSE, forms |-> 1],
      [keyword |-> "late fees|interest on overdue", risk_weight |-> 500,
       negative_contexts |-> FALSE, forms |-> 2]>>

\* what the analysis text holds for one catalog entry: the number of
\* matches of its pattern, the number of distinct matched strings, and
\* whether one of its negative contexts occurs
KeywordHits(k) ==
    {[matches |-> n, distinct |-> d, mitigated |-> m] :
        n \in 0..MaxMatches, d \in 0..MaxMatches, m \in BOOLEAN} 

TextsFor(k) ==
    {h \in KeywordHits(k) :
        /\ (h.matches = 0) = (h.distinct = 0)
        /\ h.distinct <= h.matches
        /\ h.distinct <= RiskKeywords[k].forms
        /\ h.mitigated => (RiskKeywords[k].negative_contexts /\ h.matches > 0)}

\* the hits of the first k catalog entries
RECURSIVE TextsUpTo(_)
TextsUpTo(k) ==
    IF k = 0 THEN {<<>>}
    ELSE {Append(t, h) : t \in TextsUpTo(k - 1), h \in TextsFor(k)}

\* the analysis texts: one entry of hits per catalog entry
AnalysisTexts == TextsUpTo(Len(RiskKeywords))

RECURSIVE SumOver(_, _)
SumOver(f, n) == IF n = 0 THEN 0 ELSE f[n] + SumOver(f, n - 1)

\* _analyze_keywords
analyze_keywords(text) ==
    LET K == Len(RiskKeywords)
        keyword_risk == [k \in 1..K |->
            IF text[k].matches = 0 THEN 0
            ELSE IF text[k].mitigated THEN RiskKeywords[k].risk_weight \div 2
            ELSE RiskKeywords[k].risk_weight]
        total_risk_score == SumOver(keyword_risk, K)
        detected == SumOver([k \in 1..K |-> text[k].matches], K)
    IN  [risk_score |-> IF detected > 0
                        THEN Min(1000, total_risk_score \div detected)
                        ELSE total_risk_score,
         keyword_count |-> SumOver([k \in 1..K |-> text[k].distinct], K)]

\* the risk level strings the summarizer may hand over ("" for none)
LlmLevels == {"", "low", "moderate", "attention", "high", "critical", "severe"}

NoLlm == [present |-> FALSE, risk_score |-> 0]

\* _parse_llm_assessment
parse_llm_assessment(llm_risk_assessment) ==
    IF llm_risk_assessment = "" THEN NoLlm
    ELSE [present |-> TRUE,
          risk_score |->
            CASE llm_risk_assessment = "low" -> 200
              [] llm_risk_assessment = "moderate" -> 500
              [] llm_risk_assessment \in {"attention", "high"} -> 800
              [] llm_risk_assessment = "critical" -> 900
              [] OTHER -> 500]

Categories == {"", "Indemnity", "Payment", "Other"}

\* _get_category_risk_multiplier, in hundredths
get_category_risk_multiplier(clause_category) ==
    CASE clause_category = "Indemnity" -> 120
      [] clause_category = "Payment" -> 100
      [] clause_category = "Other" -> 90
      [] OTHER -> 100

\* _calculate_hybrid_score
calculate_hybrid_score(keyword_assessment, llm_assessment, clause_category) ==
    LET keyword_score == keyword_assessment.risk_score
        llm_score == llm_assessment.risk_score
        hybrid_score ==
            IF llm_assessment.present
            THEN IF keyword_assessment.keyword_count > 0
                 THEN (keyword_score * 7 + llm_score * 3) \div 10
                 ELSE (keyword_score * 3 + llm_score * 7) \div 10
            ELSE keyword_score
        adjusted ==
            IF clause_category # ""
            THEN (hybrid_score * get_category_risk_multiplier(clause_category)) \div 100
            ELSE hybrid_score
    IN  Min(1000, adjusted)

\* self.risk_thresholds
ThresholdLow == 300
ThresholdModerate == 600
ThresholdAttention == 800

Abs(x) == IF x < 0 THEN 0 - x ELSE x

\* _determine_risk_level
determine_risk_level(risk_score) ==
    IF risk_score >= ThresholdAttention THEN "attention"
    ELSE IF risk_score >= ThresholdModerate THEN "moderate"
    ELSE "low"

\* _detect_conflicts that also flags a clause with any risk keyword
detect_conflicts_any_keyword(keyword_assessment, llm_assessment, hybrid_score) ==
    \/ /\ llm_assessment.present
       /\ Abs(keyword_assessment.risk_score - llm_assessment.risk_score) > 400
    \/ hybrid_score >= 800
    \/ keyword_assessment.keyword_count >= 1

\* _detect_conflicts
detect_conflicts(keyword_assessment, llm_assessment, hybrid_score) ==
    \/ /\ llm_assessment.present
       /\ Abs(keyword_assessment.risk_score - llm_assessment.risk_score) > 400
    \/ hybrid_score >= 800
    \/ keyword_assessment.keyword_count >= 3

\* analyze_clause_risk: the RiskAssessment
analyze_clause_risk(text, llm_risk_assessment, clause_category) ==
    LET keyword_assessment == analyze_keywords(text)
        llm_assessment == parse_llm_assessment(llm_risk_assessment)
        hybrid_score == calculate_hybrid_score(keyword_assessment, llm_assessment,
                                               clause_category)
    IN  [risk_level |-> determine_risk_level(hybrid_score),
         risk_score |-> hybrid_score,
         llm_assessment |-> llm_assessment,
         keyword_assessment |-> keyword_assessment,
         needs_review |-> detect_conflicts(keyword_assessment, llm_assessment,
                                           hybrid_score)]

\* the risk fields of clause_data, taken from the RiskAssessment
risk_fields(risk_assessment) ==
    [risk_level |-> risk_assessment.risk_level,
     needs_review |-> risk_assessment.needs_review,
     risk_score |-> risk_assessment.risk_score]

(***************************************************************************)
(* SpecRisk: analyze_clause_risk on every bounded analysis text, LLM risk  *)
(* level and category, and the clause fields stage 8 takes from it         *)
(***************************************************************************)
AnalyzeClauseRisk ==
    /\ risk.pc = "idle"
    /\ \E text \in AnalysisTexts, llm \in LlmLevels, category \in Categories :
         risk' = [pc |-> "analyzed",
                  assessment |-> analyze_clause_risk(text, llm, category)]
    /\ UNCHANGED <<askVars, sessVars, unitVars>>
    /\ UNCHANGED <<storeVars, taskVars, batchVars, apiVars, qaVars, callers, rerunVars>>

\* stage 8 copies the assessment into the clause data
AssembleRiskFields ==
    /\ risk.pc = "analyzed"
    /\ risk' = [pc |-> "assembled",
                assessment |-> risk.assessment,
                clause |-> risk_fields(risk.assessment)]
    /\ UNCHANGED <<askVars, sessVars, unitVars>>
    /\ UNCHANGED <<storeVars, taskVars, batchVars, apiVars, qaVars, callers, rerunVars>>

InitRisk ==
    /\ InitIdle
    /\ clause_candidates = <<>>

NextRisk == AnalyzeClauseRisk \/ AssembleRiskFields

SpecRisk == InitRisk /\ [][NextRisk]_vars

\* C12: a clause whose needs_review is true has a risk score of at least
\* 0.8, or at least 3 distinct risk keywords, or a keyword score and an LLM
\* score that differ by more than 0.4.
C12_ReviewHasTrigger ==
    (risk.pc = "assembled" /\ risk.clause.needs_review) =>
        \/ risk.clause.risk_score >= 800
        \/ risk.assessment.keyword_assessment.keyword_count >= 3
        \/ /\ risk.assessment.llm_assessment.present
           /\ \/ risk.assessment.keyword_assessment.risk_score
                    - risk.assessment.llm_assessment.risk_score > 400
              \/ risk.assessment.llm_assessment.risk_score
                    - risk.assessment.keyword_assessment.risk_score > 400

\* a clause flagged only because three distinct keywords were matched
C12_Witness ==
    /\ risk.pc = "assembled"
    /\ risk.clause.needs_review
    /\ risk.clause.risk_score < 800
    /\ risk.assessment.keyword_assessment.keyword_count = 3
    /\ ~risk.assessment.llm_assessment.present

\* C13: the persisted risk_level is low for a score below 0.3, moderate for
\* a score from 0.3 and below 0.6, attention for a score of at least 0.6.
C13_LevelMatchesThresholds ==
    risk.pc = "assembled" =>
        risk.clause.risk_level =
            IF risk.clause.risk_score < ThresholdLow THEN "low"
            ELSE IF risk.clause.risk_score < ThresholdModerate THEN "moderate"
            ELSE "attention"

(***************************************************************************)
(* Properties of the unary ask (Spec)                                      *)
(***************************************************************************)
\* C14: when no clause has an embedding, the ask answers 422 if the document
\* is not completed; if it is completed the backfill runs, the ask goes on
\* with the re-filtered clauses when the backfill succeeds, and answers 422
\* when the backfill fails.
C14_NotReadyOrBackfill ==
    [][/\ (qa_pc = "check_status" /\ qa_pc' # qa_pc /\ store_doc.status # COMPLETED)
            => (qa_pc' = "idle" /\ qa_reply' = "422")
       /\ (qa_pc = "check_status" /\ qa_pc' # qa_pc /\ store_doc.status = COMPLETED)
            => qa_pc' = "backfill"
       /\ (qa_pc = "backfill" /\ qa_pc' = "search")
            => clauses_with_embeddings(qa_clauses') # {}
       /\ (qa_pc = "backfill" /\ qa_pc' = "idle") => qa_reply' = "422"]_vars

(***************************************************************************)
(* qa.py: ask_question_stream, one question request.  steps lists the      *)
(* collaborator calls made and the background tasks scheduled, out the     *)
(* types of the frames sent.                                               *)
(***************************************************************************)
\* the collaborator calls that may raise
RaisePoints ==
    {"none", "detect_language", "get_conversation_context", "get_document_clauses",
     "get_document", "search_similar_clauses", "answer_question"}

\* the question requests and what the collaborators do on them:
\*   language  auto detection off, or its result: low or high confidence,
\*             or a language override in the request
\*   memory    chat_session_id given and use_conversation_memory set
\*   clauses   the clause list: none, none with a vector, some with vectors
\*   status    status of the document record
\*   backfill  what the lazy embedding backfill does
\*   relevant  whether the similarity search finds a clause
\*   raises    the collaborator call that raises
\*   publish   what publishing the analytics event does
Requests ==
    {r \in [question_empty : BOOLEAN,
            language : {"off", "low", "high", "override"},
            memory : BOOLEAN,
            clauses : {"none", "no_embedding", "embedded"},
            status : {PROCESSING, COMPLETED},
            backfill : {"ok", "raises", "stores_nothing"},
            relevant : BOOLEAN,
            raises : RaisePoints,
            publish : {"ok", "raises", "future_fails"},
            received : {TRUE}] :
        /\ r.clauses # "no_embedding" => (r.status = COMPLETED /\ r.backfill = "ok")
        /\ r.question_empty =>
              (r.language = "off" /\ ~r.memory /\ r.clauses = "embedded"
                 /\ r.relevant /\ r.raises = "none" /\ r.publish = "ok")}

\* the answer built from the LLM result, and the canned answer
LlmAnswer == [content |-> "qa_result", confidence |-> 7, sources |-> 1]
CannedAnswer == [content |-> "no_relevant_clauses", confidence |-> 0, sources |-> 0]

\* the handler h after sending the frames fs and making the calls cs
Sent(h, fs, cs) == [h EXCEPT !.out = @ \o fs, !.steps = @ \o cs]

\* an error frame sent ahead of the frames already due
StreamError_first(h, fs, cs) ==
    [Sent(h, <<"error">> \o fs, cs) EXCEPT !.pc = "closed"]

\* the except block of event_stream: an error frame ends the stream
StreamError(h, fs, cs) == [Sent(h, fs \o <<"error">>, cs) EXCEPT !.pc = "closed"]

\* the generator returns
StreamReturn(h, fs, cs) == [Sent(h, fs, cs) EXCEPT !.pc = "closed"]

Raises(call) == request.raises = call

\* a question request arrives at both endpoints
Receive ==
    /\ ~request.received
    /\ request' \in Requests
    /\ unary' = [unary EXCEPT !.pc = "start"]
    /\ stream' = [stream EXCEPT !.pc = "wait"]
    /\ UNCHANGED <<storeVars, taskVars, batchVars, apiVars, qaVars, callers, rerunVars, risk, sessVars, unitVars>>

\* initial status frame and the empty question test
StreamStart ==
    /\ stream.pc = "wait"
    /\ unary.pc = "done"
    /\ stream' = IF request.question_empty
                 THEN StreamReturn(stream, <<"status", "error">>, <<>>)
                 ELSE [Sent(stream, <<"status">>, <<>>) EXCEPT !.pc = "language"]
    /\ UNCHANGED <<request, unary>>
    /\ UNCHANGED <<storeVars, taskVars, batchVars, apiVars, qaVars, callers, rerunVars, risk, sessVars, unitVars>>

\* language detection
StreamLanguage ==
    /\ stream.pc = "language"
    /\ stream' =
         IF request.language = "off"
         THEN [stream EXCEPT !.pc = "memory"]
         ELSE IF Raises("detect_language")
         THEN StreamError(stream, <<"status">>, <<"detect_language">>)
         ELSE [Sent(stream,
                    IF request.language = "high"
                    THEN <<"status", "language_detection">> ELSE <<"status">>,
                    <<"detect_language">>) EXCEPT !.pc = "memory"]
    /\ UNCHANGED <<request, unary>>
    /\ UNCHANGED <<storeVars, taskVars, batchVars, apiVars, qaVars, callers, rerunVars, risk, sessVars, unitVars>>

\* user message frame and task, then the conversation context
StreamMemory ==
    /\ stream.pc = "memory"
    /\ stream' =
         IF ~request.memory
         THEN [stream EXCEPT !.pc = "fetch"]
         ELSE IF Raises("get_conversation_context")
         THEN StreamError(stream, <<"user_message", "status">>,
                          <<"add_user_message", "get_conversation_context">>)
         ELSE [Sent(stream, <<"user_message", "status">>,
                    <<"add_user_message", "get_conversation_context">>)
                  EXCEPT !.pc = "fetch"]
    /\ UNCHANGED <<request, unary>>
    /\ UNCHANGED <<storeVars, taskVars, batchVars, apiVars, qaVars, callers, rerunVars, risk, sessVars, unitVars>>

\* the clause list and the clauses with a vector
StreamFetch ==
    /\ stream.pc = "fetch"
    /\ stream' =
         IF Raises("get_document_clauses") \/ request.clauses # "embedded"
         THEN StreamError(stream, <<"status">>, <<"get_document_clauses">>)
         ELSE [Sent(stream, <<"status">>, <<"get_document_clauses">>)
                  EXCEPT !.pc = "search"]
    /\ UNCHANGED <<request, unary>>
    /\ UNCHANGED <<storeVars, taskVars, batchVars, apiVars, qaVars, callers, rerunVars, risk, sessVars, unitVars>>

\* similarity search; with no relevant clause the canned answer is sent,
\* the assistant message scheduled, and the generator returns
StreamSearch ==
    /\ stream.pc = "search"
    /\ stream' =
         IF Raises("search_similar_clauses")
         THEN StreamError(stream, <<"status">>, <<"search_similar_clauses">>)
         ELSE IF ~request.relevant
         THEN [StreamReturn(stream, <<"status", "answer">>,
                            <<"search_similar_clauses">>
                              \o (IF request.memory THEN <<"add_assistant_message">> ELSE <<>>))
                  EXCEPT !.answer = CannedAnswer]
         ELSE [Sent(stream, <<"status">>, <<"search_similar_clauses">>)
                  EXCEPT !.pc = "generate"]
    /\ UNCHANGED <<request, unary>>
    /\ UNCHANGED <<storeVars, taskVars, batchVars, apiVars, qaVars, callers, rerunVars, risk, sessVars, unitVars>>

\* LLM answer, answer frame, history and assistant message tasks, complete
StreamGenerate ==
    /\ stream.pc = "generate"
    /\ stream' =
         IF Raises("answer_question")
         THEN StreamError(stream, <<"status">>, <<"answer_question">>)
         ELSE [StreamReturn(stream, <<"status", "answer", "complete">>,
                            <<"answer_question", "store_qa_history">>
                              \o (IF request.memory THEN <<"add_assistant_message">> ELSE <<>>))
                  EXCEPT !.answer = LlmAnswer]
    /\ UNCHANGED <<request, unary>>
    /\ UNCHANGED <<storeVars, taskVars, batchVars, apiVars, qaVars, callers, rerunVars, risk, sessVars, unitVars>>

(***************************************************************************)
(* qa.py: ask_question on the same request.  out is the HTTP status.       *)
(***************************************************************************)
\* raise HTTPException(status_code = code), or return the response
UnaryReply(h, code, cs) == [Sent(h, <<code>>, cs) EXCEPT !.pc = "done"]

\* the empty question test, before the try block
UnaryStart ==
    /\ unary.pc = "start"
    /\ unary' = IF request.question_empty
                THEN UnaryReply(unary, "400", <<>>)
                ELSE [unary EXCEPT !.pc = "language"]
    /\ UNCHANGED <<request, stream>>
    /\ UNCHANGED <<storeVars, taskVars, batchVars, apiVars, qaVars, callers, rerunVars, risk, sessVars, unitVars>>

UnaryLanguage ==
    /\ unary.pc = "language"
    /\ unary' =
         IF request.language = "off"
         THEN [unary EXCEPT !.pc = "memory"]
         ELSE IF Raises("detect_language")
         THEN UnaryReply(unary, "500", <<"detect_language">>)
         ELSE [Sent(unary, <<>>, <<"detect_language">>) EXCEPT !.pc = "memory"]
    /\ UNCHANGED <<request, stream>>
    /\ UNCHANGED <<storeVars, taskVars, batchVars, apiVars, qaVars, callers, rerunVars, risk, sessVars, unitVars>>

\* the conversation context, then the user message task
UnaryMemory ==
    /\ unary.pc = "memory"
    /\ unary' =
         IF ~request.memory
         THEN [unary EXCEPT !.pc = "fetch"]
         ELSE IF Raises("get_conversation_context")
         THEN UnaryReply(unary, "500", <<"get_conversation_context">>)
         ELSE [Sent(unary, <<>>, <<"get_conversation_context", "add_user_message">>)
                  EXCEPT !.pc = "fetch"]
    /\ UNCHANGED <<request, stream>>
    /\ UNCHANGED <<storeVars, taskVars, batchVars, apiVars, qaVars, callers, rerunVars, risk, sessVars, unitVars>>

\* the clause list; without vectors the status check and the lazy backfill
UnaryFetch ==
    /\ unary.pc = "fetch"
    /\ unary' =
         IF Raises("get_document_clauses")
         THEN UnaryReply(unary, "500", <<"get_document_clauses">>)
         ELSE IF request.clauses = "none"
         THEN UnaryReply(unary, "404", <<"get_document_clauses">>)
         ELSE IF request.clauses = "embedded"
         THEN [Sent(unary, <<>>, <<"get_document_clauses">>) EXCEPT !.pc = "search"]
         ELSE IF Raises("get_document")
         THEN UnaryReply(unary, "500", <<"get_document_clauses", "get_document">>)
         ELSE IF request.status # COMPLETED
         THEN UnaryReply(unary, "422", <<"get_document_clauses", "get_document">>)
         ELSE IF request.backfill = "raises"
         THEN UnaryReply(unary, "500",
                         <<"get_document_clauses", "get_document",
                           "generate_and_store_embeddings">>)
         ELSE IF request.backfill = "stores_nothing"
         THEN UnaryReply(unary, "500",
                         <<"get_document_clauses", "get_document",
                           "generate_and_store_embeddings", "get_document_clauses">>)
         ELSE [Sent(unary, <<>>,
                    <<"get_document_clauses", "get_document",
                      "generate_and_store_embeddings", "get_document_clauses">>)
                  EXCEPT !.pc = "search"]
    /\ UNCHANGED <<request, stream>>
    /\ UNCHANGED <<storeVars, taskVars, batchVars, apiVars, qaVars, callers, rerunVars, risk, sessVars, unitVars>>

UnarySearch ==
    /\ unary.pc = "search"
    /\ unary' =
         IF Raises("search_similar_clauses")
         THEN UnaryReply(unary, "500", <<"search_similar_clauses">>)
         ELSE IF ~request.relevant
         THEN [UnaryReply(unary, "200",
                          <<"search_similar_clauses">>
                            \o (IF request.memory THEN <<"add_assistant_message">> ELSE <<>>))
                  EXCEPT !.answer = CannedAnswer]
         ELSE [Sent(unary, <<>>, <<"search_similar_clauses">>) EXCEPT !.pc = "generate"]
    /\ UNCHANGED <<request, stream>>
    /\ UNCHANGED <<storeVars, taskVars, batchVars, apiVars, qaVars, callers, rerunVars, risk, sessVars, unitVars>>

\* the try block around the analytics event: an exception of the publisher
\* is logged; a future that fails later is logged by _publish_callback
publish_guarded_raising(p) == IF p = "raises" THEN "raised" ELSE "published"
publish_guarded(p) == IF p = "raises" THEN "logged" ELSE "published"

\* LLM answer, history and assistant message tasks, analytics event, response
UnaryGenerate ==
    /\ unary.pc = "generate"
    /\ unary' =
         IF Raises("answer_question")
         THEN UnaryReply(unary, "500", <<"answer_question">>)
         ELSE IF publish_guarded(request.publish) = "raised"
         THEN UnaryReply(unary, "500",
                         <<"answer_question", "store_qa_history">>
                           \o (IF request.memory THEN <<"add_assistant_message">> ELSE <<>>)
                           \o <<"publish_event">>)
         ELSE [UnaryReply(unary, "200",
                          <<"answer_question", "store_qa_history">>
                            \o (IF request.memory THEN <<"add_assistant_message">> ELSE <<>>)
                            \o <<"publish_event">>)
                  EXCEPT !.answer = LlmAnswer]
    /\ UNCHANGED <<request, stream>>
    /\ UNCHANGED <<storeVars, taskVars, batchVars, apiVars, qaVars, callers, rerunVars, risk, sessVars, unitVars>>

InitQA ==
    /\ InitIdle
    /\ clause_candidates = <<>>

NextQA ==
    \/ Receive
    \/ UnaryStart \/ UnaryLanguage \/ UnaryMemory \/ UnaryFetch
    \/ UnarySearch \/ UnaryGenerate
    \/ StreamStart \/ StreamLanguage \/ StreamMemory \/ StreamFetch
    \/ StreamSearch \/ StreamGenerate

SpecQA == InitQA /\ [][NextQA]_vars

Count(frames, type) == Cardinality({i \in DOMAIN frames : frames[i] = type})
Has(frames, type) == \E i \in DOMAIN frames : frames[i] = type
Last(frames) == frames[Len(frames)]

\* C15: every frame sequence of ask-stream, whatever the collaborators do,
\* holds at most one answer frame and at most one complete frame, and an
\* error frame is the last frame of the stream.
C15_FrameDiscipline ==
    /\ Count(stream.out, "answer") <= 1
    /\ Count(stream.out, "complete") <= 1
    /\ \A i \in DOMAIN stream.out :
          stream.out[i] = "error" => (i = Len(stream.out) /\ stream.pc = "closed")

\* a collaborator raised after frames had been sent: the stream is closed
\* and holds an error frame behind a user message frame
C15_Witness ==
    /\ stream.pc = "closed"
    /\ request.raises = "answer_question"
    /\ Has(stream.out, "user_message")
    /\ Has(stream.out, "error")

\* C16: every ask-stream run that sends an answer frame and no error frame
\* ends with a complete frame, the canned answer of a search without a
\* relevant clause included.
C16_AnswerEndsWithComplete ==
    (stream.pc = "closed" /\ Has(stream.out, "answer") /\ ~Has(stream.out, "error"))
        => Last(stream.out) = "complete"

\* the calls and tasks of a run, whatever their order
Steps(h) == {h.steps[i] : i \in DOMAIN h.steps}

\* C17: on one request with the same collaborator behaviour the stream makes
\* the calls and schedules the tasks of the unary ask, and its answer frame
\* carries the answer of the unary response.
C17_StreamMatchesUnary ==
    (stream.pc = "closed" /\ unary.pc = "done")
        => (Steps(stream) = Steps(unary) /\ stream.answer = unary.answer)

\* C20: a unary ask that reached answer generation returns the LLM answer
\* with status 200 whether the analytics publisher succeeds, raises, or
\* hands back a future that fails later.
C20_PublishFailureInvisible ==
    (unary.pc = "done" /\ Has(unary.steps, "publish_event"))
        => (unary.out = <<"200">> /\ unary.answer = LlmAnswer)

\* the publisher raised and the response was returned
C20_Witness ==
    /\ unary.pc = "done"
    /\ request.publish = "raises"
    /\ Has(unary.steps, "publish_event")
    /\ unary.out = <<"200">>

(***************************************************************************)
(* Two question requests on one chat session: qa.py ask_question with      *)
(* use_conversation_memory ("ask") and chat.py ask_question_with_memory    *)
(* ("chat").  session_log is the message list of the session.              *)
(***************************************************************************)
\* ChatSessionService.add_message: the message is appended to the session
add_message(log, i, role) == Append(log, <<i, role>>)

\* ChatSessionService.get_conversation_context: the recent messages of the
\* session; conversation_context_used is whether there are any
get_conversation_context(log) == Len(log) > 0

Responded(i) == asks[i].pc = "responded"

\* the variables the chat session endpoints leave alone
SessionFrame ==
    UNCHANGED <<storeVars, taskVars, batchVars, apiVars, qaVars, callers, rerunVars,
                risk, askVars, unitVars>>

\* the client sends request i to one of the two endpoints
Issue(i) ==
    /\ asks[i].pc = "idle"
    /\ \E endpoint \in {"ask", "chat"} :
         asks' = [asks EXCEPT ![i].endpoint = endpoint,
                              ![i].pc = "context",
                              ![i].after_response =
                                  \A j \in Asks \ {i} : Responded(j)]
    /\ UNCHANGED session_log
    /\ SessionFrame

\* the handler reads the conversation context; ask_question then schedules
\* the user message as a background task
GetContext(i) ==
    /\ asks[i].pc = "context"
    /\ asks' = [asks EXCEPT
                  ![i].context_used = get_conversation_context(session_log),
                  ![i].tasks = IF asks[i].endpoint = "ask" THEN <<"user">> ELSE <<>>,
                  ![i].pc = IF asks[i].endpoint = "ask" THEN "answer" ELSE "add_user"]
    /\ UNCHANGED session_log
    /\ SessionFrame

\* ask_question_with_memory awaits the append of the user message
ChatAddUser(i) ==
    /\ asks[i].pc = "add_user"
    /\ session_log' = add_message(session_log, i, "user")
    /\ asks' = [asks EXCEPT ![i].pc = "answer"]
    /\ SessionFrame

\* ask_question_with_memory, after retrieval and the LLM answer, awaits the
\* append of the assistant message and returns
ChatAddAssistant(i) ==
    /\ asks[i].pc = "answer"
    /\ asks[i].endpoint = "chat"
    /\ session_log' = add_message(session_log, i, "assistant")
    /\ asks' = [asks EXCEPT ![i].pc = "responded"]
    /\ SessionFrame

\* ask_question, after retrieval, schedules the history record (LLM answer
\* only) and the assistant message, and returns its response
Respond(i) ==
    /\ asks[i].pc = "answer"
    /\ asks[i].endpoint = "ask"
    /\ \E relevant \in BOOLEAN :
         asks' = [asks EXCEPT
                    ![i].tasks = @ \o (IF relevant THEN <<"history">> ELSE <<>>)
                                   \o <<"assistant">>,
                    ![i].pc = "responded"]
    /\ UNCHANGED session_log
    /\ SessionFrame

\* after the response the background tasks of the request run in the order
\* they were scheduled
RunBackgroundTask(i) ==
    /\ Responded(i)
    /\ asks[i].tasks # <<>>
    /\ session_log' = IF Head(asks[i].tasks) = "history"
                      THEN session_log
                      ELSE add_message(session_log, i, Head(asks[i].tasks))
    /\ asks' = [asks EXCEPT ![i].tasks = Tail(@)]
    /\ SessionFrame

InitSession ==
    /\ InitIdle
    /\ clause_candidates = <<>>

NextSession ==
    \/ \E i \in Asks : Issue(i)
    \/ \E i \in Asks : GetContext(i)
    \/ \E i \in Asks : ChatAddUser(i)
    \/ \E i \in Asks : ChatAddAssistant(i)
    \/ \E i \in Asks : Respond(i)
    \/ \E i \in Asks : RunBackgroundTask(i)

SpecSession == InitSession /\ [][NextSession]_vars

\* request i has returned and its background tasks have run
Finished(i) == Responded(i) /\ asks[i].tasks = <<>>

\* C18: with two question requests on one chat session, each request's user
\* message is immediately followed in the session log by that request's
\* assistant message.
C18_AppendsNotInterleaved ==
    (\A i \in Asks : Finished(i))
        => \A i \in Asks :
              \E k \in 1..(Len(session_log) - 1) :
                  /\ session_log[k] = <<i, "user">>
                  /\ session_log[k + 1] = <<i, "assistant">>

\* C19: when the second ask with conversation memory is issued after the
\* response to the first was received, its response has
\* conversation_context_used and the session log is user 1, assistant 1,
\* user 2, assistant 2, however the background tasks are scheduled.
C19_SecondAskSeesFirst ==
    (/\ \A i \in Asks : Finished(i) /\ asks[i].endpoint = "ask"
     /\ asks[2].after_response)
        => /\ asks[2].context_used
           /\ session_log = <<<<1, "user">>, <<1, "assistant">>,
                              <<2, "user">>, <<2, "assistant">>>>

(***************************************************************************)
(* models/analytics.py, qa.py, analytics.py: the question_asked events.    *)
(* A string is modelled by its length, whether all its characters are      *)
(* hexadecimal digits, and whether it contains the text of the question.   *)
(***************************************************************************)
\* most events in one behaviour, and most citations of one answer
MaxEvents == 3
MaxCitations == 2

\* length of hashlib.sha256(...).hexdigest()
Sha256HexLen == 64

\* length of the literal "test_question_hash_def456"
TestHashLen == 25

\* the longest question
MaxQuestionLen == 2

Str(chars, hex, question) == [chars |-> chars, hex |-> hex, question |-> question]

\* request.question: a non-blank text
Questions == {Str(n, hex, TRUE) : n \in 1..MaxQuestionLen, hex \in BOOLEAN}

\* request.chat_session_id, or None
SessionIds == {Str(0, FALSE, FALSE), Str(Sha256HexLen \div 2, FALSE, FALSE)}

\* hashlib.sha256(question.encode('utf-8')).hexdigest()
sha256_hexdigest(text) == Str(Sha256HexLen, TRUE, FALSE)

\* QuestionAskedEvent.__init__: the event_data of the event
QuestionAskedEvent(question_hash, citation_count, session_id) ==
    [event_type |-> "question_asked",
     event_data |-> [question_hash |-> question_hash,
                     citation_count |-> citation_count,
                     session_id |-> session_id]]

\* ask_question: the event of a question that was answered
PublishFromAsk ==
    /\ Len(events) < MaxEvents
    /\ \E question \in Questions, n \in 0..MaxCitations, session \in SessionIds :
         events' = Append(events,
                          QuestionAskedEvent(sha256_hexdigest(question), n, session))
    /\ events_only

\* publish_test_event with event_type question_asked, outside production
PublishTestEvent ==
    /\ Len(events) < MaxEvents
    /\ \E session \in SessionIds :
         events' = Append(events,
                          QuestionAskedEvent(Str(TestHashLen, FALSE, FALSE),
                                             3, session))
    /\ events_only

InitEvents ==
    /\ InitIdle
    /\ clause_candidates = <<>>

NextEvents == PublishFromAsk \/ PublishTestEvent

SpecEvents == InitEvents /\ [][NextEvents]_vars

\* C21: every question_asked event handed to the publisher carries a
\* question_hash of exactly 64 hexadecimal characters, and none of its
\* string fields contains the text of the question.
C21_HashedQuestionOnly ==
    \A i \in DOMAIN events :
        LET d == events[i].event_data
        IN  /\ d.question_hash.chars = Sha256HexLen
            /\ d.question_hash.hex
            /\ ~d.question_hash.question
            /\ ~d.session_id.question

(***************************************************************************)
(* privacy_service.py: detect_and_mask_pii and unmask_text.  A text is a   *)
(* sequence of characters; a character is plain or part of a PII item and  *)
(* takes one or two bytes in UTF-8; a replacement token is one element.    *)
(***************************************************************************)
\* the longest text
MaxTextLen == 4

Ch(kind, bytes) == [kind |-> kind, bytes |-> bytes, token |-> 0]
Tok(k) == [kind |-> "token", bytes |-> 1, token |-> k]

\* a plain ASCII character, a plain two-byte character, a character of a
\* PII item (a digit of a number the patterns and the scanner recognise)
Chars == {Ch("plain", 1), Ch("plain", 2), Ch("pii", 1)}

RECURSIVE SeqsUpTo(_, _)
SeqsUpTo(S, n) ==
    IF n = 0 THEN {<<>>}
    ELSE LET shorter == SeqsUpTo(S, n - 1)
         IN  shorter \cup {Append(t, c) : t \in {u \in shorter : Len(u) = n - 1}, c \in S}

Texts == SeqsUpTo(Chars, MaxTextLen)

\* text[a:b] of Python, with 0-based bounds clamped to the text
Slice(text, a, b) == SubSeq(text, Min(a, Len(text)) + 1, Min(b, Len(text)))

\* len(text.encode('utf-8')) of the first n characters
RECURSIVE ByteOffset(_, _)
ByteOffset(text, n) == IF n = 0 THEN 0 ELSE ByteOffset(text, n - 1) + text[n].bytes

\* the PII items of a text from 0-based position i on: the maximal runs of
\* PII characters, as pairs of start and end position
RECURSIVE RunEnd(_, _)
RunEnd(text, i) ==
    IF i < Len(text) /\ text[i + 1].kind = "pii" THEN RunEnd(text, i + 1) ELSE i

RECURSIVE Runs(_, _)
Runs(text, i) ==
    IF i >= Len(text) THEN <<>>
    ELSE IF text[i + 1].kind = "pii"
    THEN <<<<i, RunEnd(text, i)>>>> \o Runs(text, RunEnd(text, i))
    ELSE Runs(text, i + 1)

\* PIIMatch of the k-th finding; the counter gives the replacement token
PIIMatch(original_text, start_position, end_position, replacement_token) ==
    [original_text |-> original_text, start_position |-> start_position,
     end_position |-> end_position, replacement_token |-> replacement_token]

\* _detect_pii_with_dlp: quote and byte_range of each finding
detect_pii_with_dlp(text) ==
    LET found == Runs(text, 0)
    IN  [k \in 1..Len(found) |->
            PIIMatch(Slice(text, found[k][1], found[k][2]),
                     ByteOffset(text, found[k][1]), ByteOffset(text, found[k][2]), k)]

\* _detect_pii_with_fallback: match.group(), match.start(), match.end()
detect_pii_with_fallback(text) ==
    LET found == Runs(text, 0)
    IN  [k \in 1..Len(found) |->
            PIIMatch(Slice(text, found[k][1], found[k][2]),
                     found[k][1], found[k][2], k)]

\* _apply_masking in token mode on the first k matches of a list in
\* ascending start position: the last match is replaced first
RECURSIVE apply_masking(_, _, _)
apply_masking(text, pii_matches, k) ==
    IF k = 0 THEN text
    ELSE LET match == pii_matches[k]
             masked == Slice(text, 0, match.start_position)
                         \o <<Tok(match.replacement_token)>>
                         \o Slice(text, match.end_position, Len(text))
         IN  apply_masking(masked, pii_matches, k - 1)

\* str.replace(old, new) for a one-element old
RECURSIVE Replace(_, _, _)
Replace(text, old, new) ==
    IF text = <<>> THEN <<>>
    ELSE (IF Head(text) = old THEN new ELSE <<Head(text)>>)
           \o Replace(Tail(text), old, new)

\* unmask_text on the first k matches
RECURSIVE unmask_text(_, _, _)
unmask_text(masked, pii_matches, k) ==
    IF k = 0 THEN masked
    ELSE unmask_text(Replace(masked, Tok(pii_matches[k].replacement_token),
                             pii_matches[k].original_text),
                     pii_matches, k - 1)

\* detect_and_mask_pii: the scanner when DLP is enabled and answers, the
\* patterns otherwise
DetectAndMask ==
    /\ privacy.pc = "idle"
    /\ \E text \in Texts, detector \in {"dlp", "fallback"} :
         LET detected_pii == IF text = <<>> THEN <<>>
                             ELSE IF detector = "dlp" THEN detect_pii_with_dlp(text)
                             ELSE detect_pii_with_fallback(text)
         IN  privacy' = [pc |-> "masked", text |-> text, detector |-> detector,
                         matches |-> detected_pii,
                         masked_text |-> apply_masking(text, detected_pii,
                                                       Len(detected_pii)),
                         unmasked_text |-> <<>>]
    /\ privacy_only

UnmaskText ==
    /\ privacy.pc = "masked"
    /\ privacy' = [privacy EXCEPT
                     !.pc = "unmasked",
                     !.unmasked_text = unmask_text(privacy.masked_text, privacy.matches,
                                                   Len(privacy.matches))]
    /\ privacy_only

InitPrivacy ==
    /\ InitIdle
    /\ clause_candidates = <<>>

NextPrivacy == DetectAndMask \/ UnmaskText

SpecPrivacy == InitPrivacy /\ [][NextPrivacy]_vars

Contains(text, part) ==
    \E i \in 0..(Len(text) - Len(part)) : Slice(text, i, i + Len(part)) = part

\* C22: the masked text returned by detect_and_mask_pii contains the raw
\* text of none of the returned matches, for either detector.
C22_NoRawPiiInMaskedText ==
    privacy.pc # "idle"
        => \A k \in DOMAIN privacy.matches :
              ~Contains(privacy.masked_text, privacy.matches[k].original_text)

\* C23: unmask_text on the masked text and the full match list gives back
\* the text that was masked.
C23_UnmaskRestoresText ==
    privacy.pc = "unmasked" => privacy.unmasked_text = privacy.text

(***************************************************************************)
(* gemini_client.py _parse_qa_response and the citations built by qa.py    *)
(* ask_question and chat.py ask_question_with_memory.  The original text   *)
(* of a clause is modelled by its length.                                  *)
(***************************************************************************)
\* clauses of the first document, and most clauses retrieved or cited
MaxOrder == 2
MaxRelevant == 2

\* original_text[:300]
SnippetLen == 300

\* clause ids: a document and the 0-based clause index
ClauseId(doc, i) == [doc |-> doc, index |-> i]

\* an id that no stored clause has
UnknownId == ClauseId("none", 0)

\* the stored clauses: those of the document asked about, and the first
\* clause of a second document selected in the chat session
StoredIds == {ClauseId("A", i) : i \in 0..(MaxOrder - 1)} \cup {ClauseId("B", 0)}

\* lengths of an original text around the snippet limit
TextLens == {0, SnippetLen, SnippetLen + 1}

\* a retrieved clause: clause_id, order, length of original_text
RetrievedClauses ==
    {[clause_id |-> id, order |-> id.index + 1, original_text |-> n] :
        id \in StoredIds, n \in TextLens}

\* the lists search_similar_clauses can return: distinct clauses
RelevantLists ==
    {r \in SeqsUpTo(RetrievedClauses, MaxRelevant) :
        \A i, j \in DOMAIN r : i # j => r[i].clause_id # r[j].clause_id}

\* the responses of the LLM: text without a JSON object, or an object with
\* used_clause_numbers and used_clause_ids
LlmResponses ==
    {[json |-> FALSE, used_clause_numbers |-> <<>>, used_clause_ids |-> <<>>]}
      \cup {[json |-> TRUE, used_clause_numbers |-> nums, used_clause_ids |-> <<>>] :
               nums \in SeqsUpTo(1..(MaxOrder + 1), MaxRelevant)}
      \cup {[json |-> TRUE, used_clause_numbers |-> <<>>, used_clause_ids |-> <<id>>] :
               id \in StoredIds \cup {UnknownId}}

\* "for clause in relevant_clauses: if <test>: ...; break" from position i:
\* the first clause with the given order, as a list of none or one
RECURSIVE FirstWithOrder(_, _, _)
FirstWithOrder(relevant_clauses, clause_num, i) ==
    IF i > Len(relevant_clauses) THEN <<>>
    ELSE IF relevant_clauses[i].order = clause_num THEN <<relevant_clauses[i]>>
    ELSE FirstWithOrder(relevant_clauses, clause_num, i + 1)

RECURSIVE FirstWithId(_, _, _)
FirstWithId(relevant_clauses, clause_id, i) ==
    IF i > Len(relevant_clauses) THEN <<>>
    ELSE IF relevant_clauses[i].clause_id = clause_id THEN <<relevant_clauses[i]>>
    ELSE FirstWithId(relevant_clauses, clause_id, i + 1)

\* the sources of _parse_qa_response for the cited numbers from position k
RECURSIVE SourcesByNumber(_, _, _)
SourcesByNumber(used_clause_numbers, relevant_clauses, k) ==
    IF k > Len(used_clause_numbers) THEN <<>>
    ELSE FirstWithOrder(relevant_clauses, used_clause_numbers[k], 1)
           \o SourcesByNumber(used_clause_numbers, relevant_clauses, k + 1)

RECURSIVE SourcesById(_, _, _)
SourcesById(used_clause_ids, relevant_clauses, k) ==
    IF k > Len(used_clause_ids) THEN <<>>
    ELSE FirstWithId(relevant_clauses, used_clause_ids[k], 1)
           \o SourcesById(used_clause_ids, relevant_clauses, k + 1)

\* the used_clause_ids a parser would return if it took the LLM's word
parse_qa_response_unchecked(response, relevant_clauses) ==
    IF ~response.json THEN <<>>
    ELSE IF response.used_clause_numbers # <<>>
    THEN [k \in DOMAIN response.used_clause_numbers |->
             ClauseId("A", response.used_clause_numbers[k] - 1)]
    ELSE response.used_clause_ids

\* _parse_qa_response: result["used_clause_ids"]
parse_qa_response(response, relevant_clauses) ==
    IF ~response.json THEN <<>>
    ELSE LET sources ==
               IF response.used_clause_numbers # <<>>
               THEN SourcesByNumber(response.used_clause_numbers, relevant_clauses, 1)
               ELSE SourcesById(response.used_clause_ids, relevant_clauses, 1)
         IN  [k \in DOMAIN sources |-> sources[k].clause_id]

\* the whole text as snippet, whatever its length
snippet_of_untruncated(original_text) == [chars |-> original_text, ellipsis |-> FALSE]

\* original_text[:300] + "..." if len(original_text) > 300 else original_text
snippet_of(original_text) ==
    IF original_text > SnippetLen
    THEN [chars |-> SnippetLen, ellipsis |-> TRUE]
    ELSE [chars |-> original_text, ellipsis |-> FALSE]

InSeq(x, seq) == \E i \in DOMAIN seq : seq[i] = x

\* the citations of the endpoints: the relevant clauses, from position i,
\* whose id is among the used clause ids
RECURSIVE build_sources(_, _, _)
build_sources(relevant_clauses, used_clause_ids, i) ==
    IF i > Len(relevant_clauses) THEN <<>>
    ELSE (IF InSeq(relevant_clauses[i].clause_id, used_clause_ids)
          THEN <<[clause_id |-> relevant_clauses[i].clause_id,
                  clause_number |-> relevant_clauses[i].order,
                  snippet |-> snippet_of(relevant_clauses[i].original_text)]>>
          ELSE <<>>)
           \o build_sources(relevant_clauses, used_clause_ids, i + 1)

\* search_similar_clauses returned a non-empty list: of one document for
\* ask_question, of the documents of the session for the chat endpoint
Retrieve ==
    /\ grounded.pc = "idle"
    /\ \E endpoint \in {"ask", "chat"}, relevant \in RelevantLists :
         /\ relevant # <<>>
         /\ endpoint = "ask" => \A i \in DOMAIN relevant : relevant[i].clause_id.doc = "A"
         /\ grounded' = [grounded EXCEPT !.pc = "retrieved", !.endpoint = endpoint,
                                         !.relevant = relevant]
    /\ grounded_only

\* answer_question: the response of the LLM is parsed, and the endpoint
\* builds the citations of the Answer
AnswerFromClauses ==
    /\ grounded.pc = "retrieved"
    /\ \E response \in LlmResponses :
         LET used == parse_qa_response(response, grounded.relevant)
         IN  grounded' = [grounded EXCEPT
                            !.pc = "answered",
                            !.response = response,
                            !.used_clause_ids = used,
                            !.sources = build_sources(grounded.relevant, used, 1)]
    /\ grounded_only

InitGrounded ==
    /\ InitIdle
    /\ clause_candidates = <<>>

NextGrounded == Retrieve \/ AnswerFromClauses

SpecGrounded == InitGrounded /\ [][NextGrounded]_vars

\* the retrieved clause with the given id
ClausesWithId(id) ==
    {i \in DOMAIN grounded.relevant : grounded.relevant[i].clause_id = id}

\* C24: the used_clause_ids and the sources of an Answer name only clauses
\* that retrieval selected and that were passed to the LLM, and each cited
\* clause number is the order of exactly one cited clause of that list.
C24_AnswerIsGrounded ==
    /\ \A k \in DOMAIN grounded.used_clause_ids :
          ClausesWithId(grounded.used_clause_ids[k]) # {}
    /\ \A k \in DOMAIN grounded.sources :
          LET source == grounded.sources[k]
          IN  /\ Cardinality(ClausesWithId(source.clause_id)) = 1
              /\ \A i \in ClausesWithId(source.clause_id) :
                    grounded.relevant[i].order = source.clause_number
              /\ InSeq(source.clause_id, grounded.used_clause_ids)
              /\ \A j \in DOMAIN grounded.sources :
                    grounded.sources[j].clause_id = source.clause_id => j = k

\* the LLM cited a clause number that was not retrieved next to one that
\* was, and the Answer cites the retrieved one only
C24_Witness ==
    /\ grounded.pc = "answered"
    /\ \E k \in DOMAIN grounded.response.used_clause_numbers :
          \A i \in DOMAIN grounded.relevant :
             grounded.relevant[i].order # grounded.response.used_clause_numbers[k]
    /\ grounded.sources # <<>>

\* C25 as claimed: every snippet is a prefix of at most 300 characters of
\* the original text of the cited clause.
C25_SnippetIsPrefix ==
    \A k \in DOMAIN grounded.sources :
        LET source == grounded.sources[k]
        IN  /\ ~source.snippet.ellipsis
            /\ source.snippet.chars <= SnippetLen
            /\ \A i \in ClausesWithId(source.clause_id) :
                  source.snippet.chars <= grounded.relevant[i].original_text

\* C25 as the code has it: a snippet starts with a prefix of at most 300
\* characters of the original text; it is the whole text when that has at
\* most 300 characters, and otherwise the first 300 followed by "...".
C25_SnippetIsPrefixThenEllipsis ==
    \A k \in DOMAIN grounded.sources :
        LET source == grounded.sources[k]
        IN  \A i \in ClausesWithId(source.clause_id) :
               LET original_text == grounded.relevant[i].original_text
               IN  /\ source.snippet.chars <= SnippetLen
                   /\ source.snippet.chars <= original_text
                   /\ source.snippet.ellipsis = (original_text > SnippetLen)
                   /\ ~source.snippet.ellipsis => source.snippet.chars = original_text

\* a clause longer than 300 characters is cited
C25_Witness ==
    /\ grounded.pc = "answered"
    /\ \E k \in DOMAIN grounded.sources : grounded.sources[k].snippet.ellipsis

(***************************************************************************)
(* firestore_client.py update_clause_embeddings, chunk by chunk.  The      *)
(* items of embeddings_data are numbered 0..total_items-1 as in the list   *)
(* embedding_items.                                                        *)
(***************************************************************************)
\* most embeddings handed to one call
MaxEmbeddings == 6

\* what batch.commit() does: it commits, or it raises a GoogleAPIError
\* whose message says the request is too big or says something else
CommitOutcomes == {"committed", "too big", "error"}

\* start_idx and end_idx of the chunk batch_num: embedding_items[start_idx:end_idx]
chunk_range(batch_num, total_items) ==
    LET start_idx == batch_num * MAX_WRITES_PER_BATCH
    IN  [start_idx |-> start_idx,
         end_idx |-> IF start_idx + MAX_WRITES_PER_BATCH < total_items
                     THEN start_idx + MAX_WRITES_PER_BATCH ELSE total_items]

\* the entry appended to failed_batches
failed_batch(batch_num, range) ==
    [batch_num |-> batch_num + 1, start_idx |-> range.start_idx,
     end_idx |-> range.end_idx, chunk_size |-> range.end_idx - range.start_idx]

\* update_clause_embeddings is called with a dict of total_items entries
StartChunkedWrite ==
    /\ chunked.pc = "idle"
    /\ \E total_items \in 0..MaxEmbeddings :
         chunked' = [NoChunked EXCEPT !.pc = "loop", !.total_items = total_items]
    /\ chunked_only

\* a loop that ends at the first chunk the store rejects
CommitChunk_until_failure ==
    /\ chunked.pc = "loop"
    /\ chunked.batch_num < num_batches(chunked.total_items)
    /\ LET range == chunk_range(chunked.batch_num, chunked.total_items)
       IN  \E commit \in CommitOutcomes :
             chunked' =
               [chunked EXCEPT
                  !.batch_num = IF commit = "committed" THEN @ + 1
                                ELSE num_batches(chunked.total_items),
                  !.attempts = Append(@, [start_idx |-> range.start_idx,
                                          end_idx |-> range.end_idx,
                                          commit |-> commit]),
                  !.written = IF commit = "committed"
                              THEN @ \cup (range.start_idx..(range.end_idx - 1))
                              ELSE @,
                  !.successful_batches = IF commit = "committed" THEN @ + 1 ELSE @,
                  !.failed_batches =
                      IF commit = "committed" THEN @
                      ELSE Append(@, failed_batch(chunked.batch_num, range))]
    /\ chunked_only

\* one turn of "for batch_num in range(num_batches)": the chunk is built
\* and committed; a GoogleAPIError is recorded and the loop goes on
CommitChunk ==
    /\ chunked.pc = "loop"
    /\ chunked.batch_num < num_batches(chunked.total_items)
    /\ LET range == chunk_range(chunked.batch_num, chunked.total_items)
       IN  \E commit \in CommitOutcomes :
             chunked' =
               [chunked EXCEPT
                  !.batch_num = @ + 1,
                  !.attempts = Append(@, [start_idx |-> range.start_idx,
                                          end_idx |-> range.end_idx,
                                          commit |-> commit]),
                  !.written = IF commit = "committed"
                              THEN @ \cup (range.start_idx..(range.end_idx - 1))
                              ELSE @,
                  !.successful_batches = IF commit = "committed" THEN @ + 1 ELSE @,
                  !.failed_batches =
                      IF commit = "committed" THEN @
                      ELSE Append(@, failed_batch(chunked.batch_num, range))]
    /\ chunked_only

\* after the loop: FirestoreError with failed_batches in its message, or True
ReportChunks ==
    /\ chunked.pc = "loop"
    /\ chunked.batch_num >= num_batches(chunked.total_items)
    /\ chunked' = [chunked EXCEPT
                     !.pc = "done",
                     !.outcome = IF chunked.failed_batches # <<>>
                                 THEN "FirestoreError" ELSE "True"]
    /\ chunked_only

InitChunks ==
    /\ InitIdle
    /\ clause_candidates = <<>>

NextChunks == StartChunkedWrite \/ CommitChunk \/ ReportChunks

SpecChunks == InitChunks /\ [][NextChunks]_vars

\* the items of the attempts with the given results
ItemsOf(commits) ==
    UNION {chunked.attempts[k].start_idx..(chunked.attempts[k].end_idx - 1) :
             k \in {j \in DOMAIN chunked.attempts : chunked.attempts[j].commit \in commits}}

\* C26: the chunks are consecutive, of at most MAX_WRITES_PER_BATCH writes,
\* and together hold every item exactly once; every chunk is attempted
\* whatever happened to the earlier ones; the items of committed chunks,
\* and only they, are written; and the call raises FirestoreError, with the
\* ranges of exactly the rejected chunks, iff some commit was rejected.
C26_ChunkedWrite ==
    /\ \A k \in DOMAIN chunked.attempts :
          LET a == chunked.attempts[k]
          IN  /\ a.start_idx = (IF k = 1 THEN 0 ELSE chunked.attempts[k - 1].end_idx)
              /\ a.start_idx < a.end_idx
              /\ a.end_idx - a.start_idx <= MAX_WRITES_PER_BATCH
              /\ a.end_idx <= chunked.total_items
    /\ chunked.written = ItemsOf({"committed"})
    /\ chunked.pc = "done" =>
          /\ ItemsOf(CommitOutcomes) = 0..(chunked.total_items - 1)
          /\ (chunked.outcome = "FirestoreError")
                = (\E k \in DOMAIN chunked.attempts :
                      chunked.attempts[k].commit # "committed")
          /\ {<<chunked.failed_batches[k].start_idx, chunked.failed_batches[k].end_idx>> :
                  k \in DOMAIN chunked.failed_batches}
                = {<<chunked.attempts[k].start_idx, chunked.attempts[k].end_idx>> :
                     k \in {j \in DOMAIN chunked.attempts :
                              chunked.attempts[j].commit # "committed"}}
          /\ Len(chunked.failed_batches) + chunked.successful_batches
                = Len(chunked.attempts)

\* the first chunk was rejected, a later one was committed, and the call
\* raised
C26_Witness ==
    /\ chunked.pc = "done"
    /\ chunked.outcome = "FirestoreError"
    /\ Len(chunked.attempts) > 2
    /\ chunked.attempts[1].commit # "committed"
    /\ chunked.attempts[2].commit = "committed"
    /\ chunked.written # {}

\* C27: a chunk attempted after a commit that was rejected as too big has
\* fewer writes than the rejected chunk.
C27_TooBigReducesChunkSize ==
    \A i, j \in DOMAIN chunked.attempts :
        (i < j /\ chunked.attempts[i].commit = "too big")
          => chunked.attempts[j].end_idx - chunked.attempts[j].start_idx
               < chunked.attempts[i].end_idx - chunked.attempts[i].start_idx

(***************************************************************************)
(* document_processor.py process_document and its extractors.  A file is   *)
(* modelled by its size, its number of pages and its MIME type, a text by  *)
(* its length.                                                             *)
(***************************************************************************)
\* settings.max_file_size_bytes and settings.MAX_PAGES, scaled
max_file_size_bytes == 2
MAX_PAGES == 2

\* the text length under which PyPDF2's text counts as minimal (100), and
\* the characters per estimated page of pdfminer (3000), scaled
MinimalTextLen == 1
CharsPerEstimatedPage == 2

\* the lengths of an extracted text
ExtractedTexts == 0..(CharsPerEstimatedPage * (MAX_PAGES + 1))

\* the end of process_document: a result with text, or DocumentProcessingError
ExtractReturns(method, text, page_count) ==
    [extraction EXCEPT !.pc = "done", !.outcome = "returned", !.method = method,
                       !.text = text, !.page_count = page_count]

\* error is "too large" when the message is that of a limit, else "failed"
ExtractRaises(error) ==
    [extraction EXCEPT !.pc = "done", !.outcome = error]

\* max(1, len(text) // 3000)
estimated_pages(text) == Max(1, text \div CharsPerEstimatedPage)

\* process_document: the size check
ProcessDocument ==
    /\ extraction.pc = "idle"
    /\ \E file_size \in 0..(max_file_size_bytes + 1), pages \in 1..(MAX_PAGES + 1),
          mime_type \in {"application/pdf", "docx"} :
         LET call == [NoExtraction EXCEPT !.file_size = file_size, !.pages = pages,
                                          !.mime_type = mime_type]
         IN  extraction' = IF file_size > max_file_size_bytes
                           THEN [call EXCEPT !.pc = "done", !.outcome = "too large"]
                           ELSE [call EXCEPT !.pc = "document_ai"]
    /\ extraction_only

\* _process_with_document_ai: the service returns the document, whatever
\* its number of pages, or the call raises; then _process_with_fallback
ProcessWithDocumentAI ==
    /\ extraction.pc = "document_ai"
    /\ \/ \E text \in ExtractedTexts :
            extraction' = ExtractReturns("document_ai", text, extraction.pages)
       \/ extraction' = IF extraction.mime_type = "application/pdf"
                        THEN [extraction EXCEPT !.pc = "pypdf2"]
                        ELSE ExtractRaises("failed")
    /\ extraction_only

\* _process_pdf_fallback: PyPDF2 inside try / except Exception
ProcessPdfFallback ==
    /\ extraction.pc = "pypdf2"
    /\ \/ \* PdfReader or extract_text raises
          extraction' = [extraction EXCEPT !.pc = "pdfminer"]
       \/ \E text \in ExtractedTexts :
            extraction' =
              IF extraction.pages > MAX_PAGES
              THEN \* DocumentProcessingError, caught by except Exception
                   [extraction EXCEPT !.pc = "pdfminer"]
              ELSE IF text < MinimalTextLen
              THEN [extraction EXCEPT !.pc = "pdfminer"]
              ELSE ExtractReturns("pypdf2_fallback", text, extraction.pages)
    /\ extraction_only

\* _process_pdf_with_pdfminer
ProcessPdfWithPdfminer ==
    /\ extraction.pc = "pdfminer"
    /\ \/ \* PDFSyntaxError or another exception of extract_text
          extraction' = ExtractRaises("failed")
       \/ \E text \in ExtractedTexts :
            extraction' =
              IF estimated_pages(text) > MAX_PAGES
              THEN ExtractRaises("too large")
              ELSE ExtractReturns("pdfminer_fallback", text, estimated_pages(text))
    /\ extraction_only

InitExtract ==
    /\ InitIdle
    /\ clause_candidates = <<>>

NextExtract ==
    \/ ProcessDocument
    \/ ProcessWithDocumentAI
    \/ ProcessPdfFallback
    \/ ProcessPdfWithPdfminer

SpecExtract == InitExtract /\ [][NextExtract]_vars

\* C28: an input whose byte size or number of pages exceeds the configured
\* maximum ends, on every extractor path, in a too-large error and without
\* text.
C28_OverLimitFails ==
    (/\ extraction.pc = "done"
     /\ \/ extraction.file_size > max_file_size_bytes
        \/ extraction.pages > MAX_PAGES)
      => extraction.outcome = "too large"

(***************************************************************************)
(* SpecFallback: process_document_complete from the await of               *)
(* batch_summarize_clauses (stage 5) to the clause store (stage 8), on     *)
(* every bounded clause list, the outcomes of the LLM calls being logged   *)
(***************************************************************************)
\* the documents of one to MaxClauses clauses of one length: short clauses
\* that share a batch, clauses whose shared batch is split, and clauses
\* whose prompt is over the limit on their own
UniformLens == {[i \in 1..n |-> l] : n \in 1..MaxClauses, l \in ClauseLens}

\* stages 1 to 4 have completed on a document with the given clauses:
\* the record is processing, and batch_summarize_clauses is awaited next
InitFallback ==
    /\ InitServices
    /\ store_doc = create_document_data
    /\ store_clauses = <<>>
    /\ stages_completed = <<"text_extraction", "privacy_masking",
                            "clause_segmentation", "baseline_readability">>
    /\ result_status = "processing"
    /\ raised_in = 0
    /\ masked_text = 0
    /\ summarization_results = <<>>
    /\ token_counter = 0
    /\ pc = "s5"
    /\ run = 1
    /\ \E lens \in UniformLens :
         /\ doc_input = [lens |-> lens, pii |-> 0]
         /\ clause_candidates = CandidatesOf(lens, 0)

NextFallback ==
    \/ Stage5Summarize \/ BatchTaskDone \/ SummarizeReturn \/ Stage5Return
    \/ Stage67Analyze \/ Stage8Store

SpecFallback == InitFallback /\ [][NextFallback]_vars

\* the outcomes of the LLM calls of batch b, as logged
LoggedOuts(b) ==
    {outs \in [1..Len(batches[b]) -> Outcomes] : Entry("llm", b, outs) \in answers}

\* the call of batch b failed: the LLM call or the parse raised, the
\* recursion ran out, or the text of the response could not be parsed
BatchFailed(b, outs) ==
    \/ process_batch(batches[b], outs, 0).raised
    \/ /\ total_tokens(batches[b]) <= MAX_PROMPT_TOKENS
       /\ outs[1] = "unparsable"

BatchesOfInputs ==
    UNION {{create_batches(CandidatesOf(lens, 0), MAX_CLAUSES_PER_BATCH)[b] :
              b \in DOMAIN create_batches(CandidatesOf(lens, 0), MAX_CLAUSES_PER_BATCH)} :
           lens \in AllLens}

Call(clauses, depth, caller_len) ==
    [clauses |-> clauses, depth |-> depth, caller_len |-> caller_len]

\* _process_batch_with_retry awaits _process_batch(batch)
CallProcessBatch ==
    /\ split.pc = "idle"
    /\ \E batch \in BatchesOfInputs :
         split' = [NoSplit EXCEPT !.pc = "running", !.batch = batch,
                                  !.stack = <<Call(batch, 0, Len(batch))>>]
    /\ split_only

\* the interpreter's recursion limit is reached: RecursionError
RecursionLimitReached ==
    /\ split.pc = "running"
    /\ split.stack # <<>>
    /\ Head(split.stack).depth > RecursionLimit
    /\ split' = [split EXCEPT !.pc = "done", !.outcome = "RecursionError"]
    /\ split_only

\* total_tokens > MAX_PROMPT_TOKENS: clauses[:mid] is processed, then
\* clauses[mid:]
SplitBatch ==
    /\ split.pc = "running"
    /\ split.stack # <<>>
    /\ LET call == Head(split.stack)
           mid == Len(call.clauses) \div 2
       IN  /\ call.depth <= RecursionLimit
           /\ total_tokens(call.clauses) > MAX_PROMPT_TOKENS
           /\ split' = [split EXCEPT !.stack =
                          <<Call(SubSeq(call.clauses, 1, mid), call.depth + 1,
                                 Len(call.clauses)),
                            Call(SubSeq(call.clauses, mid + 1, Len(call.clauses)),
                                 call.depth + 1, Len(call.clauses))>>
                            \o Tail(@)]
    /\ split_only

\* the prompt fits: _generate_content and _parse_batch_response; an
\* exception is raised again as GeminiError
GenerateAndParse ==
    /\ split.pc = "running"
    /\ split.stack # <<>>
    /\ LET call == Head(split.stack)
       IN  /\ call.depth <= RecursionLimit
           /\ total_tokens(call.clauses) <= MAX_PROMPT_TOKENS
           /\ \E o \in Outcomes :
                split' = IF o \in {"error", "baditem"}
                         THEN [split EXCEPT !.pc = "done", !.outcome = "GeminiError"]
                         ELSE [split EXCEPT
                                 !.stack = Tail(@),
                                 !.results = @ \o parse_batch_response(o, call.clauses)]
    /\ split_only

\* the outermost call returns batch1 + batch2, or its results
ReturnResults ==
    /\ split.pc = "running"
    /\ split.stack = <<>>
    /\ split' = [split EXCEPT !.pc = "done", !.outcome = "returned"]
    /\ split_only

InitSplit ==
    /\ InitIdle
    /\ clause_candidates = <<>>

NextSplit ==
    \/ CallProcessBatch
    \/ RecursionLimitReached
    \/ SplitBatch
    \/ GenerateAndParse
    \/ ReturnResults

SpecSplit == InitSplit /\ [][NextSplit]_vars

\* C30: every recursive call of _process_batch is made on fewer clauses
\* than the call that made it, the recursion ends without exhausting the
\* interpreter's stack, also for a single clause whose prompt is over the
\* limit, and a call that returns gives one result per clause.
C30_SplitTerminates ==
    /\ \A k \in DOMAIN split.stack :
          split.stack[k].depth > 0 =>
             Len(split.stack[k].clauses) < split.stack[k].caller_len
    /\ split.outcome # "RecursionError"
    /\ split.outcome = "returned" => Len(split.results) = Len(split.batch)

(***************************************************************************)
(* document_orchestrator.py stages 6 to 8: the risk and readability        *)
(* coroutines, asyncio.gather, and the clause data zipped by index.  A     *)
(* task is named by its kind and the index of its clause candidate; its    *)
(* result carries the index of the clause it was computed for.             *)
(***************************************************************************)
\* most clause candidates of the analysed document
MaxAnalysed == 2

TaskKinds == {"risk", "readability"}

TaskName(kind, i) == [kind |-> kind, index |-> i]

\* the tasks of one kind in the order they completed
RECURSIVE CompletedOf(_, _)
CompletedOf(kind, completed) ==
    IF completed = <<>> THEN <<>>
    ELSE (IF Head(completed).kind = kind THEN <<Head(completed).index>> ELSE <<>>)
           \o CompletedOf(kind, Tail(completed))

\* compare_readability of the readability service (awaited by stage 7, the
\* service is not in the repository's services): the comparison of the text
\* and the summary of one clause
compare_readability(clause) == [clause |-> clause]

\* what the task of a kind returns for clause candidate i
TaskResult(kind, i) ==
    IF kind = "readability" THEN compare_readability(i) ELSE [clause |-> i]

\* results handed over in the order the tasks completed
gather_as_completed(kind, n, completed) ==
    [i \in 1..n |-> TaskResult(kind, CompletedOf(kind, completed)[i])]

\* asyncio.gather(*tasks): the results in the order of the awaitables
gather(kind, n, completed) ==
    [i \in 1..n |-> TaskResult(kind, i)]

\* zip(clause_candidates, ..., risk_assessments, readability_comparisons)
assemble(n, risk_assessments, readability_comparisons) ==
    [i \in 1..Min(n, Min(Len(risk_assessments), Len(readability_comparisons))) |->
        [order |-> i, clause |-> i,
         risk |-> risk_assessments[i].clause,
         readability |-> readability_comparisons[i].clause]]

StateOf(kind, i) == analysis.tasks[TaskName(kind, i)]

AllTasks(n) == {TaskName(kind, i) : kind \in TaskKinds, i \in 1..n}

\* the two task lists are built and the outer gather is awaited
CreateTasks ==
    /\ analysis.pc = "idle"
    /\ \E n \in 1..MaxAnalysed :
         analysis' = [NoAnalysis EXCEPT !.pc = "gathering", !.n = n,
                                        !.tasks = [t \in AllTasks(n) |-> "pending"]]
    /\ analysis_only

\* one task runs to its end: it returns its result or raises; tasks that
\* are still pending when gather has raised go on running
TaskCompletes ==
    /\ analysis.pc # "idle"
    /\ \E t \in DOMAIN analysis.tasks, end \in {"done", "failed"} :
         /\ analysis.tasks[t] = "pending"
         /\ analysis' = [analysis EXCEPT !.tasks[t] = end,
                                         !.completed = Append(@, t)]
    /\ analysis_only

\* every task returned: gather returns both result lists, the clause data
\* are assembled and create_clauses is awaited; the store takes or rejects
GatherReturns ==
    /\ analysis.pc = "gathering"
    /\ \A t \in DOMAIN analysis.tasks : analysis.tasks[t] = "done"
    /\ \E o \in StoreAnswers :
         LET risk_assessments == gather("risk", analysis.n, analysis.completed)
             readability_comparisons ==
                 gather("readability", analysis.n, analysis.completed)
         IN  analysis' =
               IF o = "ok"
               THEN [analysis EXCEPT
                       !.pc = "stored",
                       !.persisted = assemble(analysis.n, risk_assessments,
                                              readability_comparisons)]
               ELSE [analysis EXCEPT !.pc = "except"]
    /\ analysis_only

\* a task raised: gather raises its exception in the orchestrator, whose
\* except block is entered
GatherRaises ==
    /\ analysis.pc = "gathering"
    /\ \E t \in DOMAIN analysis.tasks : analysis.tasks[t] = "failed"
    /\ analysis' = [analysis EXCEPT !.pc = "except"]
    /\ analysis_only

InitGather ==
    /\ InitIdle
    /\ clause_candidates = <<>>

NextGather == CreateTasks \/ TaskCompletes \/ GatherReturns \/ GatherRaises

SpecGather == InitGather /\ [][NextGather]_vars

\* C31: whatever the order in which the risk and readability tasks run,
\* clauses are persisted only when every task of both kinds has returned,
\* persisted clause i holds the risk result and the readability result
\* computed for clause candidate i, and when a task failed nothing is
\* persisted.
C31_PersistAfterAllTasks ==
    /\ analysis.pc = "stored" =>
          /\ \A t \in DOMAIN analysis.tasks : analysis.tasks[t] = "done"
          /\ Len(analysis.persisted) = analysis.n
    /\ \A i \in DOMAIN analysis.persisted :
          /\ analysis.persisted[i].clause = i
          /\ analysis.persisted[i].risk = i
          /\ analysis.persisted[i].readability = i
    /\ (\E t \in DOMAIN analysis.tasks : analysis.tasks[t] = "failed")
          => analysis.persisted = <<>>

\* the clauses were persisted after the tasks of the second clause had
\* completed before those of the first
C31_Witness ==
    /\ analysis.pc = "stored"
    /\ analysis.n >= 2
    /\ analysis.completed[1].index = 2
    /\ analysis.completed[2].index = 2
    /\ analysis.completed[1].kind = "readability"

(***************************************************************************)
(* SpecPack: _create_batches on every bounded clause list, with clause     *)
(* lengths that are not multiples of four                                  *)
(***************************************************************************)
\* clause text lengths (characters): empty, below one token, between two
\* token counts, several tokens, more than 0.7 * MAX_PROMPT_TOKENS alone
PackLens == {0, 1, 5, 12, 40}

PackInputs == SeqsUpTo(PackLens, MaxClauses)

\* the sum of ceil(chars / 4) over the clauses of a batch
RECURSIVE CeilTokens(_)
CeilTokens(batch) ==
    IF batch = <<>> THEN 0
    ELSE (Head(batch).len + 3) \div 4 + CeilTokens(Tail(batch))

\* the sum of estimate_tokens over the clauses of a batch
RECURSIVE EstimatedTokens(_)
EstimatedTokens(batch) ==
    IF batch = <<>> THEN 0
    ELSE estimate_tokens(Head(batch).len) + EstimatedTokens(Tail(batch))

RECURSIVE Concat(_)
Concat(seqs) == IF seqs = <<>> THEN <<>> ELSE Head(seqs) \o Concat(Tail(seqs))

\* batch_summarize_clauses is called on a clause list
CallCreateBatches ==
    /\ packing.pc = "idle"
    /\ \E lens \in PackInputs :
         packing' = [NoPacking EXCEPT !.pc = "called",
                                      !.clauses = CandidatesOf(lens, 0)]
    /\ packing_only

\* _create_batches(clauses, MAX_CLAUSES_PER_BATCH)
CreateBatches ==
    /\ packing.pc = "called"
    /\ packing' = [packing EXCEPT
                     !.pc = "returned",
                     !.batches = create_batches(packing.clauses, MAX_CLAUSES_PER_BATCH)]
    /\ packing_only

InitPack ==
    /\ InitIdle
    /\ clause_candidates = <<>>

NextPack == CallCreateBatches \/ CreateBatches

SpecPack == InitPack /\ [][NextPack]_vars

\* non-empty batches of at most max_batch_size clauses that make up the
\* input list in order
Partitioned ==
    /\ Concat(packing.batches) = packing.clauses
    /\ \A b \in DOMAIN packing.batches :
          /\ packing.batches[b] # <<>>
          /\ Len(packing.batches[b]) <= MAX_CLAUSES_PER_BATCH

\* C32 as claimed: the batches are non-empty, make up the input in order,
\* hold at most max_batch_size clauses each, and the sum of ceil(chars / 4)
\* over a batch is at most 0.7 * MAX_PROMPT_TOKENS.
C32_BatchesWithinLimits ==
    packing.pc = "returned" =>
        /\ Partitioned
        /\ \A b \in DOMAIN packing.batches :
              10 * CeilTokens(packing.batches[b]) <= 7 * MAX_PROMPT_TOKENS
        /\ \A i \in DOMAIN packing.clauses :
              estimate_tokens(packing.clauses[i].len) = (packing.clauses[i].len + 3) \div 4

\* C32 as the code has it: the batches are non-empty, make up the input in
\* order and hold at most max_batch_size clauses each; the estimate of a
\* text is max(1, floor(chars / 4)), and the summed estimate of every batch
\* of two or more clauses is at most 0.7 * MAX_PROMPT_TOKENS, a batch of one
\* clause being kept whatever its estimate.
C32_BatchesWithinLimitsUnlessSingle ==
    packing.pc = "returned" =>
        /\ Partitioned
        /\ \A b \in DOMAIN packing.batches :
              Len(packing.batches[b]) > 1 =>
                 10 * EstimatedTokens(packing.batches[b]) <= 7 * MAX_PROMPT_TOKENS

\* a list was split into a batch of several clauses and a batch of one
\* clause whose estimate alone is over the limit
C32_Witness ==
    /\ packing.pc = "returned"
    /\ \E b \in DOMAIN packing.batches : Len(packing.batches[b]) > 1
    /\ \E b \in DOMAIN packing.batches :
          /\ Len(packing.batches[b]) = 1
          /\ 10 * EstimatedTokens(packing.batches[b]) > 7 * MAX_PROMPT_TOKENS

(***************************************************************************)
(* privacy_service.py _remove_overlapping_matches on the matches that the  *)
(* patterns of _detect_pii_with_fallback find.  Confidences are in tenths. *)
(***************************************************************************)
\* most matches of all patterns in one text, and the length of the text
MaxDetected == 3
ScannedLen == 4

\* _estimate_regex_confidence of an address, a phone number, an e-mail
RegexConfidences == {5, 7, 9}

\* the match list without its j-th element
RemoveAt(seq, j) == SubSeq(seq, 1, j - 1) \o SubSeq(seq, j + 1, Len(seq))

\* sorted(matches, key=start_position), a stable sort: match is put behind
\* the matches that do not start later
RECURSIVE InsertByStart(_, _)
InsertByStart(match, sorted) ==
    IF sorted = <<>> THEN <<match>>
    ELSE IF Head(sorted).start_position <= match.start_position
    THEN <<Head(sorted)>> \o InsertByStart(match, Tail(sorted))
    ELSE <<match>> \o sorted

RECURSIVE SortByStart(_, _)
SortByStart(matches, k) ==
    IF k = 0 THEN <<>>
    ELSE InsertByStart(matches[k], SortByStart(matches, k - 1))

Overlap(a, b) ==
    a.start_position < b.end_position /\ a.end_position > b.start_position

\* the index of the first existing match that overlaps match, 0 if none
RECURSIVE FirstOverlap(_, _, _)
FirstOverlap(match, filtered, j) ==
    IF j > Len(filtered) THEN 0
    ELSE IF Overlap(match, filtered[j]) THEN j
    ELSE FirstOverlap(match, filtered, j + 1)

\* the loop over sorted_matches, up to its k-th match
RECURSIVE FilterMatches(_, _)
FilterMatches(sorted_matches, k) ==
    IF k = 0 THEN <<>>
    ELSE LET filtered == FilterMatches(sorted_matches, k - 1)
             match == sorted_matches[k]
             j == FirstOverlap(match, filtered, 1)
         IN  IF j = 0 THEN Append(filtered, match)
             ELSE IF match.confidence > filtered[j].confidence
             THEN Append(RemoveAt(filtered, j), match)
             ELSE filtered

remove_overlapping_matches(matches) ==
    FilterMatches(SortByStart(matches, Len(matches)), Len(matches))

\* pattern.finditer of one of the patterns yields a match
FindMatch ==
    /\ overlaps.pc = "finding"
    /\ Len(overlaps.detected_pii) < MaxDetected
    /\ \E start \in 0..(ScannedLen - 1), confidence \in RegexConfidences :
         \E end \in (start + 1)..ScannedLen :
            overlaps' = [overlaps EXCEPT !.detected_pii =
                           Append(@, [id |-> Len(@) + 1, start_position |-> start,
                                      end_position |-> end,
                                      confidence |-> confidence])]
    /\ overlaps_only

\* the patterns are exhausted: _remove_overlapping_matches(detected_pii)
RemoveOverlappingMatches ==
    /\ overlaps.pc = "finding"
    /\ overlaps' = [overlaps EXCEPT
                      !.pc = "returned",
                      !.filtered_matches = remove_overlapping_matches(overlaps.detected_pii)]
    /\ overlaps_only

InitOverlap ==
    /\ InitIdle
    /\ clause_candidates = <<>>

NextOverlap == FindMatch \/ RemoveOverlappingMatches

SpecOverlap == InitOverlap /\ [][NextOverlap]_vars

\* C33: no two returned matches overlap, and every detected match that is
\* not returned overlaps a returned match of equal or higher confidence.
C33_OverlapsResolvedByConfidence ==
    overlaps.pc = "returned" =>
        LET kept == overlaps.filtered_matches
        IN  /\ \A i, j \in DOMAIN kept : i # j => ~Overlap(kept[i], kept[j])
            /\ \A k \in DOMAIN overlaps.detected_pii :
                  LET match == overlaps.detected_pii[k]
                  IN  \/ \E i \in DOMAIN kept : kept[i] = match
                      \/ \E i \in DOMAIN kept :
                            /\ Overlap(match, kept[i])
                            /\ kept[i].confidence >= match.confidence

(***************************************************************************)
(* clause_segmenter.py _validate_and_merge_clauses.  The text of a         *)
(* candidate is modelled by the number of its words and by the list of the *)
(* candidates whose text it holds; confidences are in tenths.              *)
(***************************************************************************)
\* most raw candidates of a document
MaxCandidates == 3

\* len(clause.text.split()) < 5 and clause.confidence < 0.8
MinWords == 5
MinConfidence == 8

\* word counts of the raw candidates: two of them stay under five words,
\* the largest alone has five
WordCounts == {1, 3, 5}

RawCandidate(i, words, confidence) ==
    [words |-> words, parts |-> <<i>>, confidence |-> confidence, order |-> 0]

\* the loop from candidate i on; text and words are what the candidates
\* before i have put in front of the text of candidate i
RECURSIVE validate_from(_, _, _, _, _)
validate_from(clauses, i, words, parts, validated) ==
    IF i > Len(clauses) THEN validated
    ELSE LET clause == [clauses[i] EXCEPT !.words = words + @, !.parts = parts \o @]
         IN  IF clause.words < MinWords /\ clause.confidence < MinConfidence
             THEN IF i < Len(clauses)
                  THEN validate_from(clauses, i + 1, clause.words, clause.parts, validated)
                  ELSE validated
             ELSE validate_from(clauses, i + 1, 0, <<>>,
                                Append(validated,
                                       [clause EXCEPT !.order = Len(validated) + 1]))

validate_and_merge_clauses(clauses) == validate_from(clauses, 1, 0, <<>>, <<>>)

\* segment_document has the raw candidates of a document
SegmentDocument ==
    /\ merging.pc = "idle"
    /\ \E n \in 0..MaxCandidates :
         \E words \in [1..n -> WordCounts],
            confidence \in [1..n -> {MinConfidence - 1, MinConfidence}] :
            merging' = [NoMerging EXCEPT
                          !.pc = "segmented",
                          !.clauses = [i \in 1..n |->
                                         RawCandidate(i, words[i], confidence[i])]]
    /\ merging_only

\* the final validation pass
ValidateAndMerge ==
    /\ merging.pc = "segmented"
    /\ merging' = [merging EXCEPT
                     !.pc = "validated",
                     !.validated = validate_and_merge_clauses(merging.clauses)]
    /\ merging_only

InitMerge ==
    /\ InitIdle
    /\ clause_candidates = <<>>

NextMerge == SegmentDocument \/ ValidateAndMerge

SpecMerge == InitMerge /\ [][NextMerge]_vars

\* C34: after the validation pass the text of every raw candidate is held
\* by a returned clause, also that of a short candidate of low confidence
\* at the end of the list or behind another one, and the returned clauses
\* carry the orders 1..N in document order.
C34_NoCandidateLost ==
    merging.pc = "validated" =>
        /\ \A k \in DOMAIN merging.clauses :
              \E c \in DOMAIN merging.validated :
                 \E p \in DOMAIN merging.validated[c].parts :
                    merging.validated[c].parts[p] = k
        /\ \A c \in DOMAIN merging.validated : merging.validated[c].order = c
        /\ \A c, d \in DOMAIN merging.validated :
              c < d => merging.validated[c].parts[1] < merging.validated[d].parts[1]

(***************************************************************************)
(* qa.py: the response language of ask_question and of event_stream.       *)
(* Confidences are in tenths; "none" is Python's None.                     *)
(***************************************************************************)
SupportedLanguages == {"en", "hi"}

\* detection_result.confidence > 0.8
DetectionThreshold == 8

DetectionConfidences == {DetectionThreshold - 1, DetectionThreshold, DetectionThreshold + 1}

\* the mutant of ask_question_language: the override is looked at only
\* when auto detection is off
ask_question_language_detection_first(r) ==
    IF r.auto_detect_language
    THEN IF r.confidence > DetectionThreshold THEN r.detected_language
         ELSE r.language
    ELSE IF r.language_override # "none" THEN r.language_override
    ELSE r.language

\* ask_question, lines 73-104
ask_question_language(r) ==
    IF r.auto_detect_language
    THEN IF r.language_override # "none" THEN r.language_override
         ELSE IF r.confidence > DetectionThreshold THEN r.detected_language
         ELSE r.language
    ELSE IF r.language_override # "none" THEN r.language_override
    ELSE r.language

\* event_stream, lines 386-411
event_stream_language(r) ==
    IF r.auto_detect_language
    THEN IF r.language_override # "none" THEN r.language_override
         ELSE IF r.confidence > DetectionThreshold THEN r.detected_language
         ELSE r.language
    ELSE IF r.language_override # "none" THEN r.language_override
    ELSE r.language

\* a question arrives with its language fields and the language parameter
ReceiveQuestion ==
    /\ resolving.pc = "idle"
    /\ \E auto \in BOOLEAN, override \in SupportedLanguages \cup {"none"},
          language \in SupportedLanguages :
          resolving' = [resolving EXCEPT
                          !.pc = IF auto THEN "detecting" ELSE "resolving",
                          !.auto_detect_language = auto,
                          !.language_override = override,
                          !.language = language]
    /\ resolving_only

\* detect_language_advanced returns a language and a confidence, or raises
DetectLanguage ==
    /\ resolving.pc = "detecting"
    /\ \/ \E detected \in SupportedLanguages, confidence \in DetectionConfidences :
             resolving' = [resolving EXCEPT
                             !.pc = "resolving",
                             !.detected_language = detected,
                             !.confidence = confidence]
       \/ resolving' = [resolving EXCEPT !.pc = "failed"]
    /\ resolving_only

\* the unary ask resolves its response language
UnaryResolve ==
    /\ resolving.pc = "resolving"
    /\ resolving.unary = "none"
    /\ resolving' = [resolving EXCEPT !.unary = ask_question_language(resolving)]
    /\ resolving_only

\* the streaming ask resolves its response language on the same request
StreamResolve ==
    /\ resolving.pc = "resolving"
    /\ resolving.stream = "none"
    /\ resolving' = [resolving EXCEPT !.stream = event_stream_language(resolving)]
    /\ resolving_only

InitLanguage ==
    /\ InitIdle
    /\ clause_candidates = <<>>

NextLanguage == ReceiveQuestion \/ DetectLanguage \/ UnaryResolve \/ StreamResolve

SpecLanguage == InitLanguage /\ [][NextLanguage]_vars

BothResolved == resolving.unary # "none" /\ resolving.stream # "none"

\* the order of precedence the claim names; accepted tells whether the
\* confidence of the detection is high enough
ClaimedLanguage(r, accepted) ==
    IF r.language_override # "none" THEN r.language_override
    ELSE IF r.auto_detect_language /\ accepted THEN r.detected_language
    ELSE r.language

AskEndpoints == {"ask", "ask_stream", "chat_ask"}

\* qa_result of gemini_client.answer_question, confidences in tenths
QaResults == [answer : {"a1", "a2"}, confidence : {0, 5, 9}]

PersistOutcomes == {"ok", "raises"}

AnswerOf(p) == <<"answer", p.qa_result.answer, p.qa_result.confidence>>

\* qa.py _store_qa_history: every error of the write is logged
store_qa_history(p, outcome) ==
    IF outcome = "ok"
    THEN [p EXCEPT !.persisted = Append(@, "qa_history"), !.tasks = Tail(@)]
    ELSE [p EXCEPT !.logged = Append(@, "qa_history"), !.tasks = Tail(@)]

\* chat_session_service.add_message run as a background task: the response
\* has been sent, an error stays in the task
add_message_task(p, outcome) ==
    IF outcome = "ok"
    THEN [p EXCEPT !.persisted = Append(@, "assistant"), !.tasks = Tail(@)]
    ELSE [p EXCEPT !.logged = Append(@, "assistant"), !.tasks = Tail(@)]

\* answer_question has returned qa_result
AnswerGenerated ==
    /\ persisting.pc = "idle"
    /\ \E endpoint \in AskEndpoints, session \in BOOLEAN, qa_result \in QaResults :
          /\ endpoint = "chat_ask" => session
          /\ persisting' = [persisting EXCEPT
                              !.pc = "generated",
                              !.endpoint = endpoint,
                              !.chat_session_id = session,
                              !.qa_result = qa_result]
    /\ persisting_only

\* ask_question: both writes become background tasks and the answer is
\* returned
UnaryRespond ==
    /\ persisting.pc = "generated"
    /\ persisting.endpoint = "ask"
    /\ persisting' = [persisting EXCEPT
                        !.pc = "responded",
                        !.tasks = IF persisting.chat_session_id
                                  THEN <<"qa_history", "assistant">>
                                  ELSE <<"qa_history">>,
                        !.received = AnswerOf(persisting)]
    /\ persisting_only

\* event_stream: the answer frame is sent before the tasks are added
StreamAnswerFrame ==
    /\ persisting.pc = "generated"
    /\ persisting.endpoint = "ask_stream"
    /\ persisting' = [persisting EXCEPT
                        !.pc = "answer_sent",
                        !.received = AnswerOf(persisting)]
    /\ persisting_only

\* event_stream: the tasks are added and the complete frame ends the stream
StreamComplete ==
    /\ persisting.pc = "answer_sent"
    /\ persisting' = [persisting EXCEPT
                        !.pc = "responded",
                        !.tasks = IF persisting.chat_session_id
                                  THEN <<"qa_history", "assistant">>
                                  ELSE <<"qa_history">>]
    /\ persisting_only

\* the background tasks run in order once the response has been sent
RunPersistTask ==
    /\ persisting.pc = "responded"
    /\ persisting.tasks # <<>>
    /\ \E outcome \in PersistOutcomes :
          persisting' = IF Head(persisting.tasks) = "qa_history"
                        THEN store_qa_history(persisting, outcome)
                        ELSE add_message_task(persisting, outcome)
    /\ persisting_only

\* ask_question_with_memory: the assistant message is awaited inside the
\* handler's try block, before the response is built from it
ChatAppendAndRespond ==
    /\ persisting.pc = "generated"
    /\ persisting.endpoint = "chat_ask"
    /\ \E outcome \in PersistOutcomes :
          persisting' =
              IF outcome = "ok"
              THEN [persisting EXCEPT !.pc = "responded",
                                      !.persisted = Append(@, "assistant"),
                                      !.received = AnswerOf(persisting)]
              ELSE [persisting EXCEPT !.pc = "responded",
                                      !.logged = Append(@, "assistant"),
                                      !.received = <<"500">>]
    /\ persisting_only

InitPersist ==
    /\ InitIdle
    /\ clause_candidates = <<>>

NextPersist ==
    \/ AnswerGenerated
    \/ UnaryRespond
    \/ StreamAnswerFrame
    \/ StreamComplete
    \/ RunPersistTask
    \/ ChatAppendAndRespond

SpecPersist == InitPersist /\ [][NextPersist]_vars

PersistenceOver == persisting.pc = "responded" /\ persisting.tasks = <<>>

\* C36: whether or not the history record and the assistant message could
\* be stored, the user of the unary ask, of the streaming ask and of the
\* session-scoped ask has received the generated answer.
C36_PersistFailureNotPropagated ==
    PersistenceOver => persisting.received = AnswerOf(persisting)

(***************************************************************************)
(* The clause cache of the ask and the embeddings of the task (Spec)       *)
(***************************************************************************)
\* the document is completed and each of its stored clauses has a vector
CompletedAndEmbedded ==
    /\ store_doc.status = COMPLETED
    /\ store_clauses # <<>>
    /\ \A i \in DOMAIN store_clauses : store_clauses[i].embedding

\* C37: an ask that starts on a completed document whose clauses all have an
\* embedding in the store goes on to the similarity search, whatever was put
\* into the clause cache before: it neither reads the document status to
\* report the document as not ready nor runs the embedding backfill.
C37_CachedClausesNeverStale ==
    [][((qa_pc = "idle" /\ CompletedAndEmbedded /\ qa_pc' # "idle")
           => qa_pc' = "search")]_vars

(***************************************************************************)
(* stages_completed of process_document_complete (Spec)                    *)
(***************************************************************************)
\* the names of the stages up to the persistence of the clauses, and the
\* number in the stage sequence of the stage each name stands for
StageNames ==
    <<"text_extraction", "privacy_masking", "clause_segmentation",
      "baseline_readability", "ai_summarization", "risk_analysis",
      "readability_analysis", "data_storage">>

EmbeddingNames == {"embeddings_generation", "embeddings_generation_failed"}

StageNumberOf(name) ==
    CASE name = "text_extraction" -> 1
      [] name = "privacy_masking" -> 2
      [] name = "clause_segmentation" -> 3
      [] name = "baseline_readability" -> 5
      [] name = "ai_summarization" -> 6
      [] name \in {"risk_analysis", "readability_analysis"} -> 7
      [] name = "data_storage" -> 9
      [] OTHER -> 10

IsPrefixOf(s, t) == Len(s) <= Len(t) /\ s = SubSeq(t, 1, Len(s))

StagesInSequence ==
    \E last \in EmbeddingNames : IsPrefixOf(stages_completed, Append(StageNames, last))

CompletedHasAllStages ==
    result_status = "completed" =>
        /\ Len(stages_completed) = Len(StageNames) + 1
        /\ stages_completed[Len(StageNames)] = "data_storage"
        /\ stages_completed[Len(stages_completed)] \in EmbeddingNames

\* C38: stages_completed is at every point a prefix of the eight stage
\* names followed by one of the two embedding entries, the name of a stage
\* is in it only if that stage did not raise, and a completed result holds
\* data_storage and an embedding entry.
C38_StagesCompleted ==
    /\ StagesInSequence
    /\ \A i \in DOMAIN stages_completed :
          raised_in # StageNumberOf(stages_completed[i])
    /\ CompletedHasAllStages

(***************************************************************************)
(* document_processor.py: the lazily initialised Document AI client over   *)
(* the extractions of one DocumentProcessor.  "none" is Python's None;     *)
(* sent lists the requests handed to the client.                           *)
(***************************************************************************)
\* most extractions of one processor instance
MaxExtractions == 3

\* processor_path(PROJECT_ID, DOC_AI_LOCATION, DOC_AI_PROCESSOR_ID)
processor_path == "processor_path"

\* the extraction is over with the given method
ExtractionEnds(p, method) ==
    [p EXCEPT !.pc = "idle", !.mime_type = "none", !.request = NewProcessor.request,
              !.methods = Append(@, method)]

\* process_document calls _process_with_document_ai
StartExtraction ==
    /\ processor.pc = "idle"
    /\ Len(processor.methods) < MaxExtractions
    /\ \E mime_type \in {"application/pdf", "docx"} :
          processor' = [processor EXCEPT !.pc = "create_request",
                                         !.mime_type = mime_type]
    /\ processor_only

\* documentai.ProcessRequest(name=self._processor_name, raw_document=...)
CreateRequest ==
    /\ processor.pc = "create_request"
    /\ processor' = [processor EXCEPT !.pc = "doc_ai_client",
                                      !.request = [name |-> processor.processor_name,
                                                   mime_type |-> processor.mime_type]]
    /\ processor_only

\* the property doc_ai_client: the first call creates the client and sets
\* the processor name; the constructor may raise, which ends in the fallback
DocAiClient ==
    /\ processor.pc = "doc_ai_client"
    /\ IF processor.doc_ai_client
       THEN processor' = [processor EXCEPT !.pc = "process_document"]
       ELSE \/ processor' = [processor EXCEPT !.pc = "process_document",
                                              !.doc_ai_client = TRUE,
                                              !.processor_name = processor_path]
            \/ processor' = ExtractionEnds(processor, "fallback")
    /\ processor_only

\* client.process_document(request=request): the service answers or the
\* call raises; without a processor name in the request it raises
ProcessRequest ==
    /\ processor.pc = "process_document"
    /\ LET sending == [processor EXCEPT !.sent = Append(@, processor.request)]
       IN  \/ /\ processor.request.name # "none"
              /\ processor' = ExtractionEnds(sending, "document_ai")
           \/ processor' = ExtractionEnds(sending, "fallback")
    /\ processor_only

InitClient ==
    /\ InitIdle
    /\ clause_candidates = <<>>

NextClient == StartExtraction \/ CreateRequest \/ DocAiClient \/ ProcessRequest

SpecClient == InitClient /\ [][NextClient]_vars

\* C39: every request handed to the Document AI client, that of the first
\* extraction of the process included, carries the processor name.
C39_RequestCarriesProcessorName ==
    \A i \in DOMAIN processor.sent : processor.sent[i].name # "none"

====
